---------------------------- MODULE Spec2Model ----------------------------
(***************************************************************************)
(* Sollama: a console / web front-end over a local Ollama server.         *)
(* The module models                                                       *)
(*   - ConversationMemory           (src/memory_manager.py)                *)
(*   - OllamaClient                 (src/ollama_client.py)                 *)
(*   - TTSManager and its worker    (src/utils/tts_manager.py)             *)
(*   - the console turn             (src/console/sollama_app.py)           *)
(*   - the web turn                 (src/web/interfaces/gradio_handlers.py,*)
(*                                   src/interface.py)                     *)
(* Text is a sequence of one-character strings, so that strip(), the       *)
(* sentence regular expression and concatenation are computed, not         *)
(* assumed.                                                                *)
(***************************************************************************)
EXTENDS Integers, Sequences, FiniteSets, TLC

(***************************************************************************)
(* Bounds of the model.                                                    *)
(***************************************************************************)
\* largest --max-memory value explored (the smallest is -1: argparse's
\* type=int accepts any integer and nothing validates it)
MaxMaxHistory == 3
\* add_exchange calls explored in one session of the memory specification
MaxCalls == 2
\* add_exchange calls explored on one memory by SpecAdd and SpecAddAny,
\* and the largest maximum they construct a memory with
MaxAddCalls == 4
MaxAddHistory == 5
\* lines of a streamed body explored
MaxLines == 3
\* ticks of datetime.now() explored
MaxClock == 1
\* turns explored in one session of the console or web program, and the
\* lines of streamed bodies its turns consume in all
MaxTurns == 2
MaxSessionLines == 4
\* the longest buffer extract_sentences is called with (the two buffers
\* the specification quotes are longer and are added by name)
MaxBufferLen == 4

\* speak_text_immediate calls in a checked speech session
MaxSpeakCalls == 2

\* settings commands in a checked speech session
MaxSettingCalls == 2

\* turns of a checked transcript session
MaxLogTurns == 5

\* chat requests a checked web session receives, possibly at once
MaxRequests == 2

(***************************************************************************)
(* Program constants.                                                      *)
(***************************************************************************)
DEFAULT_MAX_MEMORY == 50
\* config.py:6, DEFAULT_VOLUME = 1.0, in tenths
DEFAULT_VOLUME == 10
DEFAULT_SPEECH_RATE == 175

DEFAULT_SYSTEM_PROMPT == <<"d">>

(***************************************************************************)
(* Text helpers: Python's str.strip() over the model's alphabet.           *)
(***************************************************************************)
Whitespace == {" ", "\n"}

IsBlank(s) == \A i \in 1..Len(s) : s[i] \in Whitespace

RECURSIVE LStrip(_)
LStrip(s) == IF s # <<>> /\ Head(s) \in Whitespace THEN LStrip(Tail(s)) ELSE s

RECURSIVE RStrip(_)
RStrip(s) ==
    IF s # <<>> /\ s[Len(s)] \in Whitespace
    THEN RStrip(SubSeq(s, 1, Len(s) - 1))
    ELSE s

Strip(s) == RStrip(LStrip(s))

(***************************************************************************)
(* ConversationMemory.                                                     *)
(***************************************************************************)
VARIABLES
    system_prompt,            \* ConversationMemory.system_prompt
    conversation_history,     \* ConversationMemory.conversation_history
    history_is_list,          \* FALSE once load_memory stored a JSON value
                              \* that is not a list (a number, null)
    max_history,              \* ConversationMemory.max_history
    conversation_start_time,  \* ConversationMemory.conversation_start_time
    clock,                    \* datetime.now(), as a tick count
    disk,                     \* content of the memory file
    saved,                    \* the memory as it was at the last save that
                              \* wrote the file
    mem_phase,                \* "startup" (main() still configuring) | "running"
    n_calls,                  \* add_exchange calls made so far
    last_call                 \* the last memory operation and its arguments

memVars == <<system_prompt, conversation_history, history_is_list, max_history,
             conversation_start_time, clock, disk, saved, mem_phase, n_calls, last_call>>

UserMsg(u) == [role |-> "user", content |-> u]

AssistantMsg(a) == [role |-> "assistant", content |-> a]

\* the texts a question and a response are drawn from in the memory
\* specifications (the turn specification computes its responses)
UserTexts == {<<"q">>, <<"p">>}

AssistantTexts == {<<"r">>, <<"s">>}

PromptTexts == {<<"d">>, <<"n">>}

MaxHistoryChoices == (0 - 1)..MaxMaxHistory

AddHistoryChoices == (0 - 1)..MaxAddHistory

\* the fields load_memory assigns, as they are at one moment
Snapshot ==
    [prompt |-> system_prompt, history |-> conversation_history,
     is_list |-> history_is_list, start_time |-> conversation_start_time]

NoPrev == [prompt |-> <<>>, history |-> <<>>, is_list |-> TRUE, start_time |-> 0]

NoCall == [op |-> "none", user |-> <<>>, assistant |-> <<>>, before |-> <<>>, ok |-> TRUE,
                     prev |-> NoPrev, from_disk |-> FALSE]

\* memory_manager.py:21-28, with the trim of the wrong end
AddExchangeTrimNewest(history, maxh, u, a) ==
    LET extended == history \o <<UserMsg(u), AssistantMsg(a)>>
    IN  IF Len(extended) > maxh
        THEN SubSeq(extended, 1, Len(extended) - 2)
        ELSE extended

\* memory_manager.py:21-28, with one message trimmed instead of a pair
AddExchangeTrimOne(history, maxh, u, a) ==
    LET extended == history \o <<UserMsg(u), AssistantMsg(a)>>
    IN  IF Len(extended) > maxh
        THEN SubSeq(extended, 2, Len(extended))
        ELSE extended

\* memory_manager.py:19-28: extend by the pair, then drop the first two
\* messages once if the list is longer than max_history
AddExchange(history, maxh, u, a) ==
    LET extended == history \o <<UserMsg(u), AssistantMsg(a)>>
    IN  IF Len(extended) > maxh
        THEN SubSeq(extended, 3, Len(extended))
        ELSE extended

Now == clock

Tick == IF clock < MaxClock THEN clock + 1 ELSE clock

\* ConversationMemory.add_exchange as a step of the session
add_exchange(u, a) ==
    /\ mem_phase = "running"
    /\ n_calls' = n_calls + 1
    /\ IF history_is_list
       THEN /\ conversation_history' =
                   AddExchange(conversation_history, max_history, u, a)
            /\ last_call' = [op |-> "add_exchange", user |-> u, assistant |-> a,
                             before |-> conversation_history, ok |-> TRUE,
                     prev |-> NoPrev, from_disk |-> FALSE]
       ELSE \* .extend on a value that is not a list raises AttributeError
            /\ conversation_history' = conversation_history
            /\ last_call' = [op |-> "add_exchange", user |-> u, assistant |-> a,
                             before |-> conversation_history, ok |-> FALSE,
                     prev |-> NoPrev, from_disk |-> FALSE]
    /\ UNCHANGED <<system_prompt, history_is_list, max_history,
                   conversation_start_time, clock, disk, saved, mem_phase>>


\* ConversationMemory.clear_history
clear_history ==
    /\ mem_phase = "running"
    /\ conversation_history' = <<>>
    /\ history_is_list' = TRUE
    /\ clock' = Tick
    /\ conversation_start_time' = clock'
    /\ last_call' = [op |-> "clear_history", user |-> <<>>, assistant |-> <<>>,
                     before |-> <<>>, ok |-> TRUE,
                     prev |-> NoPrev, from_disk |-> FALSE]
    /\ UNCHANGED <<system_prompt, max_history, disk, saved, mem_phase, n_calls>>

\* ConversationMemory.set_system_prompt
set_system_prompt(p) ==
    /\ mem_phase = "running"
    /\ system_prompt' = p
    /\ last_call' = [op |-> "set_system_prompt", user |-> <<>>, assistant |-> <<>>,
                     before |-> <<>>, ok |-> TRUE,
                     prev |-> NoPrev, from_disk |-> FALSE]
    /\ UNCHANGED <<conversation_history, history_is_list, max_history,
                   conversation_start_time, clock, disk, saved, mem_phase, n_calls>>

(***************************************************************************)
(* The memory file.  A file is missing, is not JSON ("garbage"), is JSON   *)
(* but not an object ("nondict"), or is a JSON object ("doc") whose keys   *)
(* may be absent or of the wrong shape.                                    *)
(***************************************************************************)
File(kind, has_prompt, prompt, hist_kind, hist, time_kind, time, saved_at) ==
    [kind |-> kind, has_prompt |-> has_prompt, prompt |-> prompt,
     hist_kind |-> hist_kind, hist |-> hist,
     time_kind |-> time_kind, time |-> time, saved_at |-> saved_at]

MissingFile == File("missing", FALSE, <<>>, "absent", <<>>, "absent", <<>>, <<>>)

GarbageFile == File("garbage", FALSE, <<>>, "absent", <<>>, "absent", <<>>, <<>>)

NonDictFile == File("nondict", FALSE, <<>>, "absent", <<>>, "absent", <<>>, <<>>)

\* Times are counted in half seconds.
\* datetime.isoformat() with the fraction left out (timespec='seconds')
IsoFormatSeconds(t) == <<t \div 2>>

\* datetime.isoformat(): the text of a time: the seconds, then the
\* microseconds unless they are zero
IsoFormat(t) == IF t % 2 = 0 THEN <<t \div 2>> ELSE <<t \div 2, (t % 2) * 500000>>

\* datetime.fromisoformat() of a text produced by isoformat()
FromIsoFormat(s) == 2 * s[1] + (IF Len(s) > 1 THEN s[2] \div 500000 ELSE 0)

\* json.dump of the memory_data dictionary built by save_memory
MemoryData ==
    File("doc", TRUE, system_prompt,
         IF history_is_list THEN "list" ELSE "number", conversation_history,
         "iso", IsoFormat(conversation_start_time), IsoFormat(Now))

\* the conversation_history values of the files a user may hand to
\* load_memory: nothing constrains what a file written elsewhere holds
ExternalHistories ==
    { <<>>,
      <<UserMsg(<<"q">>)>>,
      <<UserMsg(<<"q">>), AssistantMsg(<<"r">>)>>,
      <<UserMsg(<<"q">>), AssistantMsg(<<>>)>>,
      <<UserMsg(<<"q">>), AssistantMsg(<<"r">>), UserMsg(<<"p">>)>>,
      <<UserMsg(<<"q">>), AssistantMsg(<<"r">>),
        UserMsg(<<"p">>), AssistantMsg(<<"s">>)>> }

ExternalFiles ==
    {MissingFile, GarbageFile, NonDictFile}
    \cup { File("doc", TRUE, <<"n">>, "list", h, "iso", IsoFormat(0), IsoFormat(0)) : h \in ExternalHistories }
    \cup { File("doc", FALSE, <<>>, "absent", <<>>, "absent", <<>>, <<>>),
           File("doc", TRUE, <<"n">>, "number", <<>>, "iso", IsoFormat(0), IsoFormat(0)),
           File("doc", TRUE, <<"n">>, "list", <<UserMsg(<<"q">>), AssistantMsg(<<"r">>)>>,
                "bad", <<>>, IsoFormat(0)) }

\* ConversationMemory.save_memory: ok = FALSE is open() failing (the path
\* cannot be written), which leaves the file as it was
save_memory(ok) ==
    /\ mem_phase = "running"
    /\ disk' = IF ok THEN MemoryData ELSE disk
    /\ saved' = IF ok THEN Snapshot ELSE saved
    /\ last_call' = [op |-> "save_memory", user |-> <<>>, assistant |-> <<>>,
                     before |-> <<>>, ok |-> ok,
                     prev |-> NoPrev, from_disk |-> FALSE]
    /\ UNCHANGED <<system_prompt, conversation_history, history_is_list, max_history,
                   conversation_start_time, clock, mem_phase, n_calls>>

\* memory_manager.py:81-82: open() and json.load() succeed, and
\* memory_manager.py:84: memory_data.get exists (the value is an object)
LoadParses(f) == f.kind = "doc"

\* memory_manager.py:94: len(self.conversation_history) raises TypeError
\* for a value without a length
LoadSucceeds(f) == LoadParses(f) /\ f.hist_kind # "number"

\* ConversationMemory.load_memory of a file with content f
load_memory(f) ==
    /\ mem_phase = "running"
    /\ IF LoadParses(f)
       THEN /\ system_prompt' = IF f.has_prompt THEN f.prompt ELSE DEFAULT_SYSTEM_PROMPT
            /\ conversation_history' = IF f.hist_kind = "list" THEN f.hist ELSE <<>>
            /\ history_is_list' = (f.hist_kind # "number")
            /\ IF f.time_kind = "iso"
               THEN /\ conversation_start_time' = FromIsoFormat(f.time)
                    /\ clock' = clock
               ELSE \* the key is absent (default: now) or fromisoformat
                    \* raises (bare except: now)
                    /\ clock' = Tick
                    /\ conversation_start_time' = clock'
       ELSE UNCHANGED <<system_prompt, conversation_history, history_is_list,
                        conversation_start_time, clock>>
    /\ last_call' = [op |-> "load_memory", user |-> <<>>, assistant |-> <<>>,
                     before |-> <<>>, ok |-> LoadSucceeds(f),
                     prev |-> IF LoadSucceeds(f) THEN NoPrev ELSE Snapshot,
                     from_disk |-> (f = disk)]
    /\ UNCHANGED <<max_history, disk, saved, mem_phase, n_calls>>

\* a caller of get_full_context: the list it was handed, whether that list
\* is the log object itself, where the caller is, and the memory as it was
\* when the call was made
VARIABLES messages, messages_shared, ctx_pc, ctx_before

ctxVars == <<messages, messages_shared, ctx_pc, ctx_before>>

SystemMsg(p) == [role |-> "system", content |-> p]

\* memory_manager.py:30-34, with the system message inserted into the log
\* and the log itself returned
GetFullContextInPlace ==
    [value |-> <<SystemMsg(system_prompt)>> \o conversation_history,
     shared |-> TRUE,
     history |-> <<SystemMsg(system_prompt)>> \o conversation_history]

\* memory_manager.py:30-34: a new list holding the system message, extended
\* with the messages of the log; the log is read only
GetFullContext ==
    [value |-> <<SystemMsg(system_prompt)>> \o conversation_history,
     shared |-> FALSE,
     history |-> conversation_history]

\* ConversationMemory.get_full_context is called (list.extend raises
\* TypeError for a log that is not a list, and nothing is returned)
get_full_context ==
    /\ ctx_pc = "idle"
    /\ ctx_before' = Snapshot
    /\ IF history_is_list
       THEN /\ messages' = GetFullContext.value
            /\ messages_shared' = GetFullContext.shared
            /\ conversation_history' = GetFullContext.history
            /\ ctx_pc' = "got"
       ELSE /\ UNCHANGED <<messages, messages_shared, conversation_history>>
            /\ ctx_pc' = "raised"
    /\ UNCHANGED <<system_prompt, history_is_list, max_history, conversation_start_time,
                   clock, disk, saved, mem_phase, n_calls, last_call>>

\* sollama_app.py:181 (gradio_handlers.py:93): the caller appends the new
\* user message to the list it was handed
AppendUserMessage(q) ==
    /\ ctx_pc = "got"
    /\ ctx_pc' = "appended"
    /\ messages' = Append(messages, UserMsg(q))
    /\ conversation_history' =
           IF messages_shared THEN Append(conversation_history, UserMsg(q))
                              ELSE conversation_history
    /\ UNCHANGED <<messages_shared, ctx_before, system_prompt, history_is_list,
                   max_history, conversation_start_time, clock, disk, saved, mem_phase,
                   n_calls, last_call>>

\* the caller is done with the list
DropContext ==
    /\ ctx_pc \in {"appended", "raised"}
    /\ ctx_pc' = "idle"
    /\ messages' = <<>>
    /\ messages_shared' = FALSE
    /\ ctx_before' = NoPrev
    /\ UNCHANGED memVars

\* no caller
CtxIdle ==
    /\ messages = <<>>
    /\ messages_shared = FALSE
    /\ ctx_pc = "idle"
    /\ ctx_before = NoPrev

\* main(): the configured --max-memory reaches the memory before the
\* session starts (console: the constructor argument; web: the assignment
\* of gradio_app.py:118-119, skipped when it equals the default)
ConfigureMaxMemory(m) ==
    /\ mem_phase = "startup"
    /\ max_history' = IF m # DEFAULT_MAX_MEMORY THEN m ELSE max_history
    /\ mem_phase' = "running"
    /\ UNCHANGED <<system_prompt, conversation_history, history_is_list,
                   conversation_start_time, clock, disk, saved, n_calls, last_call>>

\* ConversationMemory.__init__
MemoryInit ==
    /\ system_prompt = DEFAULT_SYSTEM_PROMPT
    /\ conversation_history = <<>>
    /\ history_is_list = TRUE
    /\ max_history = DEFAULT_MAX_MEMORY
    /\ conversation_start_time = 0
    /\ clock = 0
    /\ disk = MissingFile
    /\ saved = NoPrev
    /\ mem_phase = "startup"
    /\ n_calls = 0
    /\ last_call = NoCall


(***************************************************************************)
(* OllamaClient.generate_response.  The server's answer is a sequence of   *)
(* lines (response.iter_lines()); the connection may also fail at any      *)
(* point, which requests reports as a RequestException.                    *)
(***************************************************************************)
VARIABLES
    gen_pc,        \* "idle" | "running" | "ended" | "raised"
    gen_streaming, \* OllamaClient.use_streaming of the call
    gen_seen,      \* the lines the generator has consumed, in order
    gen_yielded    \* the chunks it has yielded, in order

genVars == <<gen_pc, gen_streaming, gen_seen, gen_yielded>>

\* a line of the streamed body
Line(kind, has_response, response, done) ==
    [kind |-> kind, has_response |-> has_response, response |-> response, done |-> done]

\* an empty line (a keep-alive): `if line:` is false
BlankLine == Line("blank", FALSE, <<>>, FALSE)

\* bytes that are not UTF-8: line.decode('utf-8') raises UnicodeDecodeError
BadUtf8Line == Line("badutf8", FALSE, <<>>, FALSE)

\* text that is not JSON: json.loads raises json.JSONDecodeError
BadJsonLine == Line("badjson", FALSE, <<>>, FALSE)

\* JSON that is not an object (null, a number): `'response' in chunk`
\* raises TypeError
NonObjectLine == Line("nonobject", FALSE, <<>>, FALSE)

\* the connection fails instead of delivering a line
ConnectionFailure == Line("failure", FALSE, <<>>, FALSE)

\* a JSON object {"response"?: text, "done"?: bool}
ObjectLine(has_response, response, done) == Line("object", has_response, response, done)

\* the records that are malformed: not text, not JSON, or not an object
Malformed(line) == line.kind \in {"badutf8", "badjson", "nonobject"}

\* the texts a record's "response" carries
ResponseTexts == {<<>>, <<"a", ".">>, <<"b">>, <<" ">>}

ObjectLines ==
    { ObjectLine(TRUE, r, d) : r \in ResponseTexts, d \in BOOLEAN }
    \cup { ObjectLine(FALSE, <<>>, d) : d \in BOOLEAN }

Lines ==
    {BlankLine, BadUtf8Line, BadJsonLine, NonObjectLine, ConnectionFailure}
    \cup ObjectLines

Reaction(yields, value, then) == [yields |-> yields, value |-> value, then |-> then]

\* ollama_client.py:74-83: what one line of the stream makes the generator
\* do: yield a chunk or not, then go on, end the sequence, or raise
ReactToLine(line) ==
    CASE line.kind = "blank"     -> Reaction(FALSE, <<>>, "continue")
      [] line.kind = "badjson"   -> Reaction(FALSE, <<>>, "continue")
      [] line.kind = "object"    ->
            Reaction(line.has_response, line.response,
                     IF line.done THEN "break" ELSE "continue")
      \* UnicodeDecodeError, TypeError: not json.JSONDecodeError, so not
      \* caught at line 82; a RequestException is re-raised at line 88-89
      [] OTHER                   -> Reaction(FALSE, <<>>, "raise")

\* generate_response is called: the POST is sent
GenStart(streaming) ==
    /\ gen_pc = "idle"
    /\ gen_pc' = "running"
    /\ gen_streaming' = streaming
    /\ gen_seen' = <<>>
    /\ gen_yielded' = <<>>

\* ollama_client.py:74-83: the generator consumes the next line
GenLine(line) ==
    /\ gen_pc = "running"
    /\ gen_streaming
    /\ gen_seen' = Append(gen_seen, line)
    /\ LET r == ReactToLine(line)
       IN  /\ gen_yielded' = IF r.yields THEN Append(gen_yielded, r.value) ELSE gen_yielded
           /\ gen_pc' = CASE r.then = "continue" -> "running"
                          [] r.then = "break"    -> "ended"
                          [] OTHER               -> "raised"
    /\ UNCHANGED gen_streaming

\* iter_lines() is exhausted: the server closed the body
GenExhausted ==
    /\ gen_pc = "running"
    /\ gen_streaming
    /\ gen_pc' = "ended"
    /\ UNCHANGED <<gen_streaming, gen_seen, gen_yielded>>

\* ollama_client.py:84-86: the whole body is one JSON document
GenWhole(line) ==
    /\ gen_pc = "running"
    /\ ~gen_streaming
    /\ gen_seen' = <<line>>
    /\ IF line.kind = "object"
       THEN /\ gen_yielded' = <<IF line.has_response THEN line.response ELSE <<>> >>
            /\ gen_pc' = "ended"
       ELSE /\ gen_yielded' = <<>>
            /\ gen_pc' = "raised"
    /\ UNCHANGED gen_streaming

GenIdle ==
    /\ gen_pc = "idle"
    /\ gen_streaming = TRUE
    /\ gen_seen = <<>>
    /\ gen_yielded = <<>>

(***************************************************************************)
(* OllamaClient.extract_sentences: re.finditer(r'[.!?]+[\s\n]*', buffer).  *)
(***************************************************************************)
Terminators == {".", "!", "?"}

\* the first index after `from` that holds a terminator, 0 when none does
RECURSIVE NextTerminator(_, _)
NextTerminator(buffer, from) ==
    IF from >= Len(buffer) THEN 0
    ELSE IF buffer[from + 1] \in Terminators THEN from + 1
    ELSE NextTerminator(buffer, from + 1)

\* the last index of the longest run of characters of `class` starting
\* right after index `at` (`at` itself when the run is empty)
RECURSIVE RunEnd(_, _, _)
RunEnd(buffer, at, class) ==
    IF at < Len(buffer) /\ buffer[at + 1] \in class
    THEN RunEnd(buffer, at + 1, class)
    ELSE at

\* match.end() of the match that starts at the terminator at index j:
\* the terminators (greedy), then the whitespace (greedy)
MatchEnd(buffer, j) == RunEnd(buffer, RunEnd(buffer, j, Terminators), Whitespace)

RECURSIVE ExtractFrom(_, _, _)
ExtractFrom(buffer, last_end, sentences) ==
    LET j == NextTerminator(buffer, last_end)
    IN  IF j = 0
        THEN [sentences |-> sentences,
              remaining |-> Strip(SubSeq(buffer, last_end + 1, Len(buffer)))]
        ELSE LET e == MatchEnd(buffer, j)
                 sentence == Strip(SubSeq(buffer, last_end + 1, e))
             IN  ExtractFrom(buffer, e,
                             IF sentence # <<>> THEN Append(sentences, sentence)
                                                ELSE sentences)

\* a caller of extract_sentences: the buffer it passes, and what the first
\* and the second call on that buffer returned
VARIABLES ex_buffer, ex_calls, ex_first, ex_second

exVars == <<ex_buffer, ex_calls, ex_first, ex_second>>

\* ollama_client.py:91-104, with the matches kept between calls, so that
\* a second call finds them consumed
ExtractSentencesConsuming(buffer) ==
    IF ex_calls = 0 THEN ExtractFrom(buffer, 0, <<>>)
    ELSE [sentences |-> <<>>, remaining |-> Strip(buffer)]

\* ollama_client.py:91-104
ExtractSentences(buffer) == ExtractFrom(buffer, 0, <<>>)

\* no call has returned
NoSplit == [sentences |-> <<>>, remaining |-> <<>>]

\* the characters buffers are made of: letters, terminators, whitespace
BufferChars == {"a", "b", ".", "?", " "}

RECURSIVE BuffersOfLength(_)
BuffersOfLength(n) ==
    IF n = 0 THEN {<<>>}
    ELSE { Append(b, c) : b \in BuffersOfLength(n - 1), c \in BufferChars }

\* "Hello world. How are"
HelloBuffer ==
    <<"H", "e", "l", "l", "o", " ", "w", "o", "r", "l", "d", ".", " ",
      "H", "o", "w", " ", "a", "r", "e">>

\* "No terminator here"
NoTerminatorBuffer ==
    <<"N", "o", " ", "t", "e", "r", "m", "i", "n", "a", "t", "o", "r", " ",
      "h", "e", "r", "e">>

\* the buffers extract_sentences is called with
Buffers ==
    UNION { BuffersOfLength(n) : n \in 0..MaxBufferLen }
        \cup {HelloBuffer, NoTerminatorBuffer}

\* ollama_client.py:91-104: the caller calls extract_sentences(ex_buffer);
\* the function assigns to locals only
extract_sentences ==
    /\ ex_calls < 2
    /\ ex_calls' = ex_calls + 1
    /\ ex_first' = IF ex_calls = 0 THEN ExtractSentences(ex_buffer) ELSE ex_first
    /\ ex_second' = IF ex_calls = 1 THEN ExtractSentences(ex_buffer) ELSE ex_second
    /\ UNCHANGED ex_buffer

\* no caller
ExIdle ==
    /\ ex_buffer = <<>>
    /\ ex_calls = 0
    /\ ex_first = NoSplit
    /\ ex_second = NoSplit

(***************************************************************************)
(* TTSManager: the settings, the queue (queue.Queue: its items and its     *)
(* count of unfinished tasks), the worker thread and its stop event.       *)
(***************************************************************************)
VARIABLES
    tts_available,      \* TTSManager.tts_available
    muted,              \* TTSManager.muted
    volume,             \* TTSManager.volume, in tenths
    volume_before_mute, \* TTSManager.volume_before_mute, in tenths
    speech_rate,        \* TTSManager.speech_rate, in words per minute
    engine,             \* the properties _speak_with_engine gave the engine
                        \* of its latest call
    tts_queue,          \* TTSManager.tts_queue: the units not yet taken
    unfinished_tasks,   \* queue.Queue.unfinished_tasks: put() minus task_done()
    tts_thread,         \* TTSManager.tts_thread: "none" | "alive" | "dead"
    tts_stop_event,     \* TTSManager.tts_stop_event.is_set()
    worker_pc,          \* where _tts_worker is: "check" (line 133) | "get" (135)
                        \* | "dequeued" (136) | "speaking" (137, inside
                        \* _speak_with_engine) | "off" (no thread running)
    worker_unit,        \* the unit the worker holds
    next_id,            \* units put so far, plus one: a unit's id is its rank
    spoken,             \* the units whose synthesis the worker began, in order
    discarded           \* ids of the units stop_tts_thread removed from the queue

ttsVars == <<tts_available, muted, volume, volume_before_mute, speech_rate, engine,
             tts_queue, unfinished_tasks, tts_thread, tts_stop_event, worker_pc,
             worker_unit, next_id, spoken, discarded>>

Unit(id, text) == [id |-> id, text |-> text]

NoUnit == Unit(0, <<>>)

\* no synthesis call has configured an engine
NoEngine == [volume |-> 0, rate |-> 0]

\* TTSManager.__init__ with the launch volume (in tenths), followed by
\* sollama_app.py:36-40 when mute_on_start is set
TtsStart(available, launch_volume, mute_on_start) ==
    /\ tts_available = available
    /\ muted = mute_on_start
    /\ volume = IF mute_on_start THEN 0 ELSE launch_volume
    /\ volume_before_mute = launch_volume
    /\ speech_rate = DEFAULT_SPEECH_RATE
    /\ engine = NoEngine
    /\ tts_queue = <<>>
    /\ unfinished_tasks = 0
    /\ tts_thread = "none"
    /\ tts_stop_event = FALSE
    /\ worker_pc = "off"
    /\ worker_unit = NoUnit
    /\ next_id = 1
    /\ spoken = <<>>
    /\ discarded = {}

\* TTSManager.__init__ with the launch volume (in tenths)
TtsInit(available, launch_volume) == TtsStart(available, launch_volume, FALSE)

\* tts_manager.py:72-75: the queue after speak_text_immediate(text)
RECURSIVE PutAll(_, _, _)
PutAll(queue, id, texts) ==
    IF texts = <<>> THEN queue
    ELSE PutAll(Append(queue, Unit(id, Head(texts))), id + 1, Tail(texts))

\* tts_manager.py:74, with the mute not consulted
AcceptedWhileMuted(texts) ==
    IF tts_available
    THEN [i \in 1..Len(SelectSeq(texts, LAMBDA t : ~IsBlank(t))) |->
             Strip(SelectSeq(texts, LAMBDA t : ~IsBlank(t))[i])]
    ELSE <<>>

\* tts_manager.py:74: the texts speak_text_immediate puts, stripped, among
\* those it is called with
Accepted(texts) ==
    IF tts_available /\ ~muted
    THEN [i \in 1..Len(SelectSeq(texts, LAMBDA t : ~IsBlank(t))) |->
             Strip(SelectSeq(texts, LAMBDA t : ~IsBlank(t))[i])]
    ELSE <<>>

\* tts_manager.py:135 with the newest unit taken instead of the oldest
TakeNewest(queue) == [unit |-> queue[Len(queue)], rest |-> SubSeq(queue, 1, Len(queue) - 1)]

\* tts_manager.py:135: queue.Queue.get takes the oldest unit
Take(queue) == [unit |-> Head(queue), rest |-> Tail(queue)]

\* speak_text_immediate called with each of `texts` in order
SpeakTextImmediate(texts) ==
    /\ tts_queue' = PutAll(tts_queue, next_id, Accepted(texts))
    /\ next_id' = next_id + Len(Accepted(texts))
    /\ unfinished_tasks' = unfinished_tasks + Len(Accepted(texts))

\* tts_manager.py:112-117
StartTtsThread ==
    IF tts_thread # "alive"
    THEN /\ tts_stop_event' = FALSE
         /\ tts_thread' = "alive"
         /\ worker_pc' = "check"
    ELSE UNCHANGED <<tts_stop_event, tts_thread, worker_pc>>

\* tts_manager.py:121-127: set the event, then drain the queue
StopSignalAndDrain ==
    /\ tts_stop_event' = TRUE
    /\ tts_queue' = <<>>
    /\ unfinished_tasks' = unfinished_tasks - Len(tts_queue)
    /\ discarded' = discarded \cup { tts_queue[i].id : i \in 1..Len(tts_queue) }

\* tts_manager.py:128-129: join(timeout=1.0) returns when the thread has
\* ended, or after a second.  A worker that is not inside a synthesis call
\* sees the event within its 0.1 s poll, so the timeout passes first only
\* while the worker is inside one.
ThreadJoinReturns ==
    \/ tts_thread # "alive"
    \/ worker_pc \in {"dequeued", "speaking"}

\* _tts_worker, line 133: the loop test
WorkerCheck ==
    /\ tts_thread = "alive"
    /\ worker_pc = "check"
    /\ IF tts_stop_event
       THEN tts_thread' = "dead" /\ worker_pc' = "off"
       ELSE tts_thread' = tts_thread /\ worker_pc' = "get"
    /\ UNCHANGED <<tts_available, muted, volume, volume_before_mute, speech_rate, tts_queue,
                   unfinished_tasks, tts_stop_event, worker_unit, next_id, spoken,
                   discarded, engine>>

\* _tts_worker, line 135: get(timeout=0.1) returns the oldest unit
WorkerGet ==
    /\ tts_thread = "alive"
    /\ worker_pc = "get"
    /\ tts_queue # <<>>
    /\ worker_unit' = Take(tts_queue).unit
    /\ tts_queue' = Take(tts_queue).rest
    /\ worker_pc' = "dequeued"
    /\ UNCHANGED <<tts_available, muted, volume, volume_before_mute, speech_rate,
                   unfinished_tasks, tts_thread, tts_stop_event, next_id, spoken,
                   discarded, engine>>

\* _tts_worker, lines 135, 139-140: get(timeout=0.1) raises queue.Empty
WorkerGetTimeout ==
    /\ tts_thread = "alive"
    /\ worker_pc = "get"
    /\ tts_queue = <<>>
    /\ worker_pc' = "check"
    /\ UNCHANGED <<tts_available, muted, volume, volume_before_mute, speech_rate, tts_queue,
                   unfinished_tasks, tts_thread, tts_stop_event, worker_unit,
                   next_id, spoken, discarded, engine>>

\* tts_manager.py:83-84: _speak_with_engine reads self.speech_rate and
\* self.volume when it is called (self.muted is not read)
EngineProperties == [volume |-> volume, rate |-> speech_rate]

\* _tts_worker, lines 136-137: the synthesis call begins (every unit in
\* the queue is non-blank: speak_text_immediate puts no other)
WorkerSpeakBegin ==
    /\ tts_thread = "alive"
    /\ worker_pc = "dequeued"
    /\ spoken' = Append(spoken, worker_unit)
    /\ engine' = EngineProperties
    /\ worker_pc' = "speaking"
    /\ UNCHANGED <<tts_available, muted, volume, volume_before_mute, speech_rate, tts_queue,
                   unfinished_tasks, tts_thread, tts_stop_event, worker_unit,
                   next_id, discarded>>

\* _tts_worker, lines 137-138: the synthesis call returns (it raises
\* nothing: _speak_with_engine swallows every failure), then task_done()
WorkerSpeakEnd ==
    /\ tts_thread = "alive"
    /\ worker_pc = "speaking"
    /\ unfinished_tasks' = unfinished_tasks - 1
    /\ worker_unit' = NoUnit
    /\ worker_pc' = "check"
    /\ UNCHANGED <<tts_available, muted, volume, volume_before_mute, speech_rate, tts_queue,
                   tts_thread, tts_stop_event, next_id, spoken, discarded, engine>>

\* tts_manager.py:248-256, with the volume set to the default on unmute
ToggleMuteToDefault ==
    /\ IF ~muted
       THEN /\ volume_before_mute' = volume
            /\ volume' = 0
            /\ muted' = TRUE
       ELSE /\ volume' = DEFAULT_VOLUME
            /\ muted' = FALSE
            /\ UNCHANGED volume_before_mute
    /\ UNCHANGED speech_rate

\* TTSManager.toggle_mute
toggle_mute ==
    /\ IF ~muted
       THEN /\ volume_before_mute' = volume
            /\ volume' = 0
            /\ muted' = TRUE
       ELSE /\ volume' = volume_before_mute
            /\ muted' = FALSE
            /\ UNCHANGED volume_before_mute
    /\ UNCHANGED speech_rate

\* launch volumes of a session: console.py:33-35 admits 0.0 to 1.0 (tenths)
LaunchVolumes == {0, 7, DEFAULT_VOLUME}

\* arguments of the `volume` command: float(volume_str), in tenths, on both
\* sides of each end of the range
VolumeArgs == {0 - 1, 0, 3, DEFAULT_VOLUME, DEFAULT_VOLUME + 1}

Min(a, b) == IF a < b THEN a ELSE b

Max(a, b) == IF a > b THEN a ELSE b

\* tts_manager.py:225-230
adjust_rate(increase) ==
    /\ speech_rate' = IF increase THEN Min(300, speech_rate + 25)
                                  ELSE Max(50, speech_rate - 25)
    /\ UNCHANGED <<muted, volume, volume_before_mute>>

\* tts_manager.py:232-237 (0.1 is one tenth)
adjust_volume(increase) ==
    /\ volume' = IF increase THEN Min(DEFAULT_VOLUME, volume + 1) ELSE Max(0, volume - 1)
    /\ UNCHANGED <<muted, volume_before_mute, speech_rate>>

\* tts_manager.py:241, with every volume accepted
InRangeAlways(x) == TRUE

\* tts_manager.py:241: 0.0 <= volume <= 1.0
InRange(x) == 0 <= x /\ x <= DEFAULT_VOLUME

\* tts_manager.py:239-246, with the mute left on
SetVolumeKeepsMute(x) ==
    /\ volume' = IF InRange(x) THEN x ELSE volume
    /\ UNCHANGED <<muted, volume_before_mute, speech_rate>>

\* tts_manager.py:239-246: True is returned exactly when InRange(x)
set_volume(x) ==
    /\ IF InRange(x)
       THEN /\ volume' = x
            /\ muted' = FALSE
       ELSE UNCHANGED <<volume, muted>>
    /\ UNCHANGED <<volume_before_mute, speech_rate>>

\* speak_text_immediate as a caller sees it, with a record of the last call
VARIABLES
    last_put,       \* the last speak_text_immediate call: its text, the queue and the
                    \* settings it found, the queue it left, whether put() blocked
    n_puts,         \* speak_text_immediate calls so far
    n_settings      \* settings calls so far

putVars == <<last_put, n_puts, n_settings>>

NoPut == [called |-> FALSE, text |-> <<>>, before |-> <<>>, after |-> <<>>,
          muted |-> FALSE, available |-> FALSE, blocked |-> FALSE]

\* tts_manager.py:31, 75: queue.Queue() has no maxsize, so put() finds the
\* queue full at no length
PutBlocks(queue) == FALSE

\* the texts speak_text_immediate is called with: empty, blank, plain, padded
SpeechTexts == {<<>>, <<" ">>, <<"a">>, <<" ", "b", " ">>}

\* tts_manager.py:72-75
speak_text_immediate(text) ==
    /\ SpeakTextImmediate(<<text>>)
    /\ last_put' = [called |-> TRUE, text |-> text, before |-> tts_queue,
                    after |-> tts_queue', muted |-> muted,
                    available |-> tts_available, blocked |-> PutBlocks(tts_queue)]
    /\ n_puts' = n_puts + 1
    /\ UNCHANGED <<n_settings, tts_available, muted, volume, volume_before_mute,
                   speech_rate, engine, tts_thread, tts_stop_event, worker_pc,
                   worker_unit, spoken, discarded>>

\* tts_manager.py:112-117, called with the thread not running
start_tts_thread ==
    /\ tts_thread # "alive"
    /\ StartTtsThread
    /\ UNCHANGED <<putVars, tts_available, muted, volume, volume_before_mute,
                   speech_rate, engine, tts_queue, unfinished_tasks, worker_unit,
                   next_id, spoken, discarded>>

PutIdle ==
    /\ last_put = NoPut
    /\ n_puts = 0
    /\ n_settings = 0

\* sollama_app.py:212, without the wait
QueueJoinReturnsAtOnce == TRUE

\* sollama_app.py:212: tts_queue.join() returns when every put() has had
\* its task_done()
QueueJoinReturns == unfinished_tasks = 0

\* The worker thread's life as its callers drive it (tts_manager.py:112-142):
\* stop_tts_thread step by step, next to the worker, and a synthesis call
\* that fails.
VARIABLES
    caller_pc,        \* "idle" | "streaming" | "queue_join" | "draining" | "joining"
    started,          \* start_tts_thread has returned and stop_tts_thread was not called since
    stop_returned,    \* stop_tts_thread has returned; no start and no enqueue since
    queued_at_stop,   \* the ids queued when stop_tts_thread was last called
    synth_failed      \* the ids of the units whose synthesis call failed

thrVars == <<caller_pc, started, stop_returned, queued_at_stop, synth_failed>>

ThrIdle ==
    /\ caller_pc = "idle"
    /\ started = FALSE
    /\ stop_returned = FALSE
    /\ queued_at_stop = {}
    /\ synth_failed = {}

\* the settings and the engine, which neither the thread's callers nor the
\* worker's bookkeeping change
thrSettings == <<tts_available, muted, volume, volume_before_mute, speech_rate, engine>>

\* sollama_app.py:189-191: the turn starts the worker
TurnStart ==
    /\ caller_pc = "idle"
    /\ StartTtsThread
    /\ caller_pc' = "streaming"
    /\ started' = TRUE
    /\ stop_returned' = FALSE
    /\ UNCHANGED <<queued_at_stop, synth_failed, putVars, thrSettings,
                   tts_queue, unfinished_tasks, worker_unit, next_id, spoken, discarded>>

\* sollama_app.py:202-204, 210-211: the turn enqueues a sentence or the remainder
TurnPut(text) ==
    /\ caller_pc = "streaming"
    /\ speak_text_immediate(text)
    /\ stop_returned' = FALSE
    /\ UNCHANGED <<caller_pc, started, queued_at_stop, synth_failed>>

\* sollama_app.py:194, 174-176: the stream raises; the turn is over
TurnFail ==
    /\ caller_pc = "streaming"
    /\ caller_pc' = "idle"
    /\ UNCHANGED <<started, stop_returned, queued_at_stop, synth_failed, putVars, ttsVars>>

\* sollama_app.py:206-212: the stream ends; the turn waits at tts_queue.join()
TurnStreamEnd ==
    /\ caller_pc = "streaming"
    /\ caller_pc' = "queue_join"
    /\ UNCHANGED <<started, stop_returned, queued_at_stop, synth_failed, putVars, ttsVars>>

\* tts_manager.py:121: stop_tts_thread sets the event
StopSignal ==
    /\ tts_stop_event' = TRUE
    /\ caller_pc' = "draining"
    /\ started' = FALSE
    /\ stop_returned' = FALSE
    /\ queued_at_stop' = { tts_queue[i].id : i \in 1..Len(tts_queue) }
    /\ UNCHANGED <<synth_failed, putVars, thrSettings, tts_queue, unfinished_tasks,
                   tts_thread, worker_pc, worker_unit, next_id, spoken, discarded>>

\* sollama_app.py:212-213: join() returns and the turn calls stop_tts_thread
TurnQueueJoin ==
    /\ caller_pc = "queue_join"
    /\ QueueJoinReturns
    /\ StopSignal

\* sollama_app.py:218-220 (or any caller outside a turn): stop_tts_thread
StopCall ==
    /\ caller_pc = "idle"
    /\ StopSignal

\* tts_manager.py:122-125: one pass of the drain loop
StopDrainOne ==
    /\ caller_pc = "draining"
    /\ tts_queue # <<>>
    /\ tts_queue' = Tail(tts_queue)
    /\ unfinished_tasks' = unfinished_tasks - 1
    /\ discarded' = discarded \cup {Head(tts_queue).id}
    /\ UNCHANGED <<thrVars, putVars, thrSettings, tts_thread, tts_stop_event, worker_pc,
                   worker_unit, next_id, spoken>>

\* tts_manager.py:122, 126-127: the queue is empty, the loop ends
StopDrainDone ==
    /\ caller_pc = "draining"
    /\ tts_queue = <<>>
    /\ caller_pc' = "joining"
    /\ UNCHANGED <<started, stop_returned, queued_at_stop, synth_failed, putVars, ttsVars>>

\* tts_manager.py:128-129: the bounded join; stop_tts_thread returns
StopJoin ==
    /\ caller_pc = "joining"
    /\ ThreadJoinReturns
    /\ caller_pc' = "idle"
    /\ stop_returned' = TRUE
    /\ UNCHANGED <<started, queued_at_stop, synth_failed, putVars, ttsVars>>

\* _tts_worker, lines 137-138, with task_done() skipped after a failure
WorkerSpeakFailsSkipsDone ==
    /\ tts_thread = "alive"
    /\ worker_pc = "speaking"
    /\ worker_unit' = NoUnit
    /\ worker_pc' = "check"
    /\ UNCHANGED <<tts_available, muted, volume, volume_before_mute, speech_rate, tts_queue,
                   unfinished_tasks, tts_thread, tts_stop_event, next_id, spoken, discarded,
                   engine>>

\* tts_manager.py:95-96, 108-109, then _tts_worker line 138: the synthesis
\* call fails, _speak_with_engine swallows the exception and returns, and
\* the worker calls task_done()
WorkerSpeakFails ==
    /\ tts_thread = "alive"
    /\ worker_pc = "speaking"
    /\ unfinished_tasks' = unfinished_tasks - 1
    /\ worker_unit' = NoUnit
    /\ worker_pc' = "check"
    /\ UNCHANGED <<tts_available, muted, volume, volume_before_mute, speech_rate, tts_queue,
                   tts_thread, tts_stop_event, next_id, spoken, discarded, engine>>

\* The settings commands as the console dispatches them
\* (command_handler.py:193-222), with a record of the last two calls.
VARIABLES
    last_setting,       \* the last settings call: operation, argument, result, state before
    prev_setting,       \* the settings call before it
    volume_at_mute,     \* the volume when the mute was last switched on
    only_adjusted       \* only adjust_volume / adjust_rate were called since then

setVars == <<last_setting, prev_setting, volume_at_mute, only_adjusted>>

Settings == [volume |-> volume, muted |-> muted,
             volume_before_mute |-> volume_before_mute]

NoSetting == [op |-> "none", arg |-> 0, result |-> TRUE,
              before |-> [volume |-> 0, muted |-> FALSE, volume_before_mute |-> 0]]

NoPrevSetting == [op |-> "none", arg |-> 0, was_muted |-> FALSE]

Called(op, arg, result) ==
    /\ last_setting' = [op |-> op, arg |-> arg, result |-> result, before |-> Settings]
    /\ prev_setting' = [op |-> last_setting.op, arg |-> last_setting.arg,
                        was_muted |-> last_setting.before.muted]

settingsFrame == <<tts_available, engine, tts_queue, unfinished_tasks, tts_thread,
                   tts_stop_event, worker_pc, worker_unit, next_id, spoken, discarded>>

\* command_handler.py:193-196
CmdAdjustSpeechRate(increase) ==
    /\ adjust_rate(increase)
    /\ Called("adjust_rate", IF increase THEN 1 ELSE 0, TRUE)
    /\ UNCHANGED <<volume_at_mute, only_adjusted, settingsFrame>>

\* command_handler.py:198-201
CmdAdjustVolume(increase) ==
    /\ adjust_volume(increase)
    /\ Called("adjust_volume", IF increase THEN 1 ELSE 0, TRUE)
    /\ UNCHANGED <<volume_at_mute, only_adjusted, settingsFrame>>

\* command_handler.py:203-210
CmdToggleMute ==
    /\ toggle_mute
    /\ Called("toggle_mute", 0, TRUE)
    /\ volume_at_mute' = IF ~muted THEN volume ELSE volume_at_mute
    /\ only_adjusted' = IF ~muted THEN TRUE ELSE only_adjusted
    /\ UNCHANGED settingsFrame

\* command_handler.py:212-222
CmdSetVolume(x) ==
    /\ set_volume(x)
    /\ Called("set_volume", x, InRange(x))
    /\ only_adjusted' = FALSE
    /\ UNCHANGED <<volume_at_mute, settingsFrame>>

SetIdle ==
    /\ last_setting = NoSetting
    /\ prev_setting = NoPrevSetting
    /\ volume_at_mute = 0
    /\ only_adjusted = FALSE

\* The settings handlers of the web interface (gradio_handlers.py:205-221).

\* the positions of the volume slider, 0.0 to 1.0 (gradio_ui.py:186-190), in tenths
VolumeSlider == 0..DEFAULT_VOLUME

\* positions of the rate slider, 50 to 300 (gradio_ui.py:178-182)
RateSlider == {50, DEFAULT_SPEECH_RATE, 300}

\* gradio_handlers.py:205-208
update_speech_rate(rate) ==
    /\ speech_rate' = rate
    /\ UNCHANGED <<muted, volume, volume_before_mute>>

\* gradio_handlers.py:210-216
update_volume(x) ==
    /\ volume' = x
    /\ muted' = FALSE
    /\ UNCHANGED <<volume_before_mute, speech_rate>>

\* gradio_handlers.py:218-221
update_mute(m) ==
    /\ muted' = m
    /\ UNCHANGED <<volume, volume_before_mute, speech_rate>>

\* The transcript (conversation_logger.py) as the console's turns write it.
VARIABLES
    save_responses,   \* the session was started with --save: there is a transcript file
    question_count,   \* ConversationLogger.question_count
    transcript,       \* the numbers n of the Q<n>/A<n> blocks in the file, in order
    log_turns         \* turns processed so far

logVars == <<save_responses, question_count, transcript, log_turns>>

LogInit(save) ==
    /\ save_responses = save
    /\ question_count = 0
    /\ transcript = <<>>
    /\ log_turns = 0

\* conversation_logger.py:25-36: the count after the call and the block
\* numbers appended; `written` is false when the file cannot be written
LogExchange(count, written) ==
    IF ~save_responses THEN [count |-> count, wrote |-> <<>>]
    ELSE [count |-> count + 1, wrote |-> IF written THEN <<count + 1>> ELSE <<>>]

\* sollama_app.py:149-176: a turn, as the transcript sees it: the response
\* is kept and logged, or is empty, or the generation failed
ProcessQuestion(outcome, written) ==
    /\ log_turns' = log_turns + 1
    /\ LET counted == question_count + 1
           logged == LogExchange(counted, written)
       IN  IF outcome = "ok"
           THEN /\ question_count' = logged.count
                /\ transcript' = transcript \o logged.wrote
           ELSE /\ question_count' = counted
                /\ UNCHANGED transcript
    /\ UNCHANGED save_responses

(***************************************************************************)
(* The turn: SollamaApp (console) and GradioHandlers.chat_stream /          *)
(* SollamaGradioInterface.chat (web).                                      *)
(***************************************************************************)
VARIABLES
    app,                   \* "console" | "web": which program runs
    use_streaming,         \* OllamaClient.use_streaming
    speak_while_streaming, \* SollamaApp.speak_while_streaming
    is_processing,         \* SollamaGradioInterface.is_processing
    pc,                    \* where the main flow is: "prompt" (between
                           \* turns) | "stream" (the for loop over the chunks)
                           \* | "join" (tts_queue.join()) | "thread_join"
                           \* (inside stop_tts_thread) | "returned" (back in
                           \* _process_question) | "exit_join" | "exited"
    stream_open,           \* the generator has not ended
    question,              \* the user's input of the turn
    full_response,         \* full_response / response
    text_buffer,           \* text_buffer
    n_lines,               \* lines of streamed bodies consumed so far
    turn_no,               \* turns started so far
    turn_live,             \* the turn narrates live
    turn_muted,            \* audio was muted when the turn started
    turn_first_id,         \* next_id when the turn started
    turn_blocking_calls,   \* speak_text calls made by the turn
    turn_outcome,          \* "none" | "running" | "ok" | "empty" | "failed"
    hist_before            \* conversation_history when the turn started

appVars == <<app, use_streaming, speak_while_streaming, is_processing, pc,
             stream_open, question, full_response, text_buffer, n_lines, turn_no,
             turn_live, turn_muted, turn_first_id, turn_blocking_calls, turn_outcome, hist_before>>

\* sollama_app.py:189, 200, 209 and 165: streaming with live narration
Live == use_streaming /\ speak_while_streaming /\ tts_available

\* the settings of a turn, which no step of a turn changes
turnSettings == <<app, use_streaming, speak_while_streaming>>

ttsSettings == <<tts_available, muted, volume, volume_before_mute, speech_rate>>

\* the questions asked: run() strips the input and skips an empty one
Questions == {<<"q">>}

\* sollama_app.py:158: `if response and response.strip()`
KeepResponse(response) == ~IsBlank(response) /\ response # <<>>

\* sollama_app.py:165, with the blocking speak made in every turn
NotAlreadySpokenAlways == TRUE

\* sollama_app.py:165: the response was not narrated during streaming
NotAlreadySpoken == ~Live

\* sollama_app.py:149-153, 178-191: _process_question up to the first chunk
ConsoleAsk(q) ==
    /\ app = "console"
    /\ pc = "prompt"
    /\ pc' = "stream"
    /\ stream_open' = TRUE
    /\ question' = q
    /\ full_response' = <<>>
    /\ text_buffer' = <<>>
    /\ n_lines' = n_lines
    /\ turn_no' = turn_no + 1
    /\ turn_live' = Live
    /\ turn_muted' = muted
    /\ turn_first_id' = next_id
    /\ turn_blocking_calls' = 0
    /\ turn_outcome' = "running"
    /\ hist_before' = conversation_history
    /\ IF Live THEN StartTtsThread ELSE UNCHANGED <<tts_stop_event, tts_thread, worker_pc>>
    /\ UNCHANGED <<turnSettings, is_processing, ttsSettings, engine, tts_queue, unfinished_tasks,
                   worker_unit, next_id, spoken, discarded, memVars>>

\* sollama_app.py:174-176, with the text accumulated so far stored
ConsoleFailStoresPartial ==
    /\ pc' = "prompt"
    /\ stream_open' = FALSE
    /\ turn_outcome' = "failed"
    /\ conversation_history' =
           AddExchange(conversation_history, max_history, question, full_response)
    /\ UNCHANGED <<turnSettings, is_processing, question, full_response, text_buffer,
                   turn_no, turn_live, turn_muted, turn_first_id, turn_blocking_calls, hist_before,
                   ttsVars, system_prompt, history_is_list, max_history,
                   conversation_start_time, clock, disk, saved, mem_phase, n_calls, last_call>>

\* sollama_app.py:174-176: the exception reaches _process_question, which
\* reports it; nothing else runs
ConsoleFail ==
    /\ pc' = "prompt"
    /\ stream_open' = FALSE
    /\ turn_outcome' = "failed"
    /\ UNCHANGED <<turnSettings, is_processing, question, full_response, text_buffer,
                   turn_no, turn_live, turn_muted, turn_first_id, turn_blocking_calls, hist_before,
                   ttsVars, memVars>>

\* sollama_app.py:194-204: one chunk of the stream
ConsoleChunk(chunk, more) ==
    /\ full_response' = full_response \o chunk
    /\ IF Live
       THEN LET ex == ExtractSentences(text_buffer \o chunk)
            IN  /\ text_buffer' = ex.remaining
                /\ SpeakTextImmediate(ex.sentences)
       ELSE /\ text_buffer' = text_buffer \o chunk
            /\ UNCHANGED <<tts_queue, next_id, unfinished_tasks>>
    /\ stream_open' = more
    /\ UNCHANGED <<turnSettings, is_processing, pc, question, turn_no, turn_live, turn_muted,
                   turn_first_id, turn_blocking_calls, turn_outcome, hist_before,
                   ttsSettings, engine, tts_thread, tts_stop_event, worker_pc, worker_unit,
                   spoken, discarded, memVars>>

\* the for loop of _get_ollama_response asks the generator for a chunk and
\* the generator consumes one line of the streamed body
ConsoleLine(line) ==
    /\ app = "console"
    /\ pc = "stream"
    /\ stream_open
    /\ use_streaming
    /\ n_lines' = n_lines + 1
    /\ LET r == ReactToLine(line)
       IN  IF r.then = "raise" THEN ConsoleFail
           ELSE IF r.yields THEN ConsoleChunk(r.value, r.then = "continue")
           ELSE /\ stream_open' = (r.then = "continue")
                /\ UNCHANGED <<turnSettings, is_processing, pc, question, full_response,
                               text_buffer, turn_no, turn_live, turn_muted, turn_first_id,
                               turn_blocking_calls, turn_outcome, hist_before,
                               ttsVars, memVars>>

\* the same with use_streaming off: the body is one document, one chunk
ConsoleWhole(line) ==
    /\ app = "console"
    /\ pc = "stream"
    /\ stream_open
    /\ ~use_streaming
    /\ n_lines' = n_lines + 1
    /\ IF line.kind = "object"
       THEN ConsoleChunk(IF line.has_response THEN line.response ELSE <<>>, FALSE)
       ELSE ConsoleFail

\* sollama_app.py:206-212, with the remainder left in the buffer
ConsoleStreamEndDropsRemainder ==
    /\ app = "console"
    /\ pc = "stream"
    /\ use_streaming \/ ~stream_open
    /\ stream_open' = FALSE
    /\ pc' = IF Live THEN "join" ELSE "returned"
    /\ UNCHANGED <<tts_queue, next_id, unfinished_tasks>>
    /\ UNCHANGED <<turnSettings, is_processing, question, full_response, text_buffer,
                   n_lines, turn_no, turn_live, turn_muted, turn_first_id, turn_blocking_calls,
                   turn_outcome, hist_before, ttsSettings, engine, tts_thread, tts_stop_event,
                   worker_pc, worker_unit, spoken, discarded, memVars>>

\* sollama_app.py:206-212: the loop has ended; the remainder is enqueued
\* and the turn waits at tts_queue.join()
ConsoleStreamEnd ==
    /\ app = "console"
    /\ pc = "stream"
    /\ use_streaming \/ ~stream_open
    /\ stream_open' = FALSE
    /\ IF Live
       THEN /\ SpeakTextImmediate(<<text_buffer>>)
            /\ pc' = "join"
       ELSE /\ UNCHANGED <<tts_queue, next_id, unfinished_tasks>>
            /\ pc' = "returned"
    /\ UNCHANGED <<turnSettings, is_processing, question, full_response, text_buffer,
                   n_lines, turn_no, turn_live, turn_muted, turn_first_id, turn_blocking_calls,
                   turn_outcome, hist_before, ttsSettings, engine, tts_thread, tts_stop_event,
                   worker_pc, worker_unit, spoken, discarded, memVars>>

\* sollama_app.py:212-213: join() returns; stop_tts_thread sets the event
\* and drains the queue
ConsoleJoin ==
    /\ app = "console"
    /\ pc = "join"
    /\ QueueJoinReturns
    /\ StopSignalAndDrain
    /\ pc' = "thread_join"
    /\ UNCHANGED <<turnSettings, is_processing, stream_open, question, full_response,
                   text_buffer, n_lines, turn_no, turn_live, turn_muted, turn_first_id,
                   turn_blocking_calls, turn_outcome, hist_before, ttsSettings, engine,
                   tts_thread, worker_pc, worker_unit, next_id, spoken, memVars>>

\* tts_manager.py:128-129 inside the turn, then sollama_app.py:216
ConsoleThreadJoin ==
    /\ app = "console"
    /\ pc = "thread_join"
    /\ ThreadJoinReturns
    /\ pc' = "returned"
    /\ UNCHANGED <<turnSettings, is_processing, stream_open, question, full_response,
                   text_buffer, n_lines, turn_no, turn_live, turn_muted, turn_first_id,
                   turn_blocking_calls, turn_outcome, hist_before, ttsVars, memVars>>

\* sollama_app.py:156-172: the response is back in _process_question
ConsoleFinish ==
    /\ app = "console"
    /\ pc = "returned"
    /\ pc' = "prompt"
    /\ LET response == Strip(full_response)
       IN  IF KeepResponse(response)
           THEN /\ conversation_history' =
                       AddExchange(conversation_history, max_history, question, response)
                /\ n_calls' = n_calls + 1
                /\ last_call' = [op |-> "add_exchange", user |-> question,
                                 assistant |-> response,
                                 before |-> conversation_history, ok |-> TRUE,
                     prev |-> NoPrev, from_disk |-> FALSE]
                /\ turn_outcome' = "ok"
                /\ turn_blocking_calls' =
                       IF NotAlreadySpoken /\ tts_available THEN turn_blocking_calls + 1
                                                 ELSE turn_blocking_calls
           ELSE /\ UNCHANGED <<conversation_history, n_calls, last_call,
                               turn_blocking_calls>>
                /\ turn_outcome' = "empty"
    /\ UNCHANGED <<turnSettings, is_processing, stream_open, question, full_response,
                   text_buffer, n_lines, turn_no, turn_live, turn_muted, turn_first_id, hist_before,
                   ttsVars, system_prompt, history_is_list, max_history,
                   conversation_start_time, clock, disk, saved, mem_phase>>

\* command_handler.py:152-156: the `stream` command
ConsoleToggleStreaming ==
    /\ app = "console"
    /\ pc = "prompt"
    /\ use_streaming' = ~use_streaming
    /\ UNCHANGED <<app, speak_while_streaming, is_processing, pc, stream_open, question,
                   full_response, text_buffer, n_lines, turn_no, turn_live, turn_muted,
                   turn_first_id, turn_blocking_calls, turn_outcome, hist_before,
                   ttsVars, memVars>>

\* command_handler.py:203-210: the `mute` / `unmute` command
ConsoleToggleMute ==
    /\ app = "console"
    /\ pc = "prompt"
    /\ toggle_mute
    /\ UNCHANGED <<appVars, tts_available, engine, tts_queue,
                   unfinished_tasks, tts_thread,
                   tts_stop_event, worker_pc, worker_unit, next_id, spoken, discarded,
                   memVars>>

\* sollama_app.py:218-220: _cleanup_and_exit calls stop_tts_thread
ConsoleExit ==
    /\ app = "console"
    /\ pc = "prompt"
    /\ StopSignalAndDrain
    /\ pc' = "exit_join"
    /\ UNCHANGED <<turnSettings, is_processing, stream_open, question, full_response,
                   text_buffer, n_lines, turn_no, turn_live, turn_muted, turn_first_id,
                   turn_blocking_calls, turn_outcome, hist_before, ttsSettings, engine,
                   tts_thread, worker_pc, worker_unit, next_id, spoken, memVars>>

\* tts_manager.py:128-129 at exit
ConsoleExitJoin ==
    /\ app = "console"
    /\ pc = "exit_join"
    /\ ThreadJoinReturns
    /\ pc' = "exited"
    /\ UNCHANGED <<turnSettings, is_processing, stream_open, question, full_response,
                   text_buffer, n_lines, turn_no, turn_live, turn_muted, turn_first_id,
                   turn_blocking_calls, turn_outcome, hist_before, ttsVars, memVars>>

\* the frame of a step of a web turn, which touches no narration state
webFrame == <<turnSettings, turn_live, turn_muted, turn_first_id, turn_blocking_calls, text_buffer,
              ttsVars>>

\* gradio_handlers.py:81-96 (interface.py:47-64): a request arrives while
\* none is being processed
WebAsk(m) ==
    /\ app = "web"
    /\ pc = "prompt"
    /\ ~is_processing
    /\ is_processing' = TRUE
    /\ pc' = "stream"
    /\ stream_open' = TRUE
    /\ question' = m
    /\ full_response' = <<>>
    /\ n_lines' = n_lines
    /\ turn_no' = turn_no + 1
    /\ turn_outcome' = "running"
    /\ hist_before' = conversation_history
    /\ UNCHANGED <<webFrame, memVars>>

\* gradio_handlers.py:114-123 (interface.py:81-87): except, then finally
WebFail ==
    /\ pc' = "prompt"
    /\ stream_open' = FALSE
    /\ is_processing' = FALSE
    /\ turn_outcome' = "failed"
    /\ UNCHANGED <<question, full_response, turn_no, hist_before, webFrame, memVars>>

\* gradio_handlers.py:98-101 (interface.py:65-66): one chunk
WebChunk(chunk, more) ==
    /\ full_response' = full_response \o chunk
    /\ stream_open' = more
    /\ UNCHANGED <<is_processing, pc, question, turn_no, turn_outcome, hist_before,
                   webFrame, memVars>>

\* the for loop asks the generator for a chunk and the generator consumes
\* one line of the streamed body
WebLine(line) ==
    /\ app = "web"
    /\ pc = "stream"
    /\ stream_open
    /\ use_streaming
    /\ n_lines' = n_lines + 1
    /\ LET r == ReactToLine(line)
       IN  IF r.then = "raise" THEN WebFail
           ELSE WebChunk(IF r.yields THEN r.value ELSE <<>>, r.then = "continue")

\* the same with use_streaming off
WebWhole(line) ==
    /\ app = "web"
    /\ pc = "stream"
    /\ stream_open
    /\ ~use_streaming
    /\ n_lines' = n_lines + 1
    /\ IF line.kind = "object"
       THEN WebChunk(IF line.has_response THEN line.response ELSE <<>>, FALSE)
       ELSE WebFail

\* gradio_handlers.py:103-112, 122-123 (interface.py:68-79, 86-87): the
\* loop has ended; the exchange is stored and the flag is cleared
WebFinish ==
    /\ app = "web"
    /\ pc = "stream"
    /\ use_streaming \/ ~stream_open
    /\ pc' = "prompt"
    /\ stream_open' = FALSE
    /\ is_processing' = FALSE
    /\ turn_outcome' = "ok"
    /\ conversation_history' =
           AddExchange(conversation_history, max_history, question, full_response)
    /\ n_calls' = n_calls + 1
    /\ last_call' = [op |-> "add_exchange", user |-> question,
                     assistant |-> full_response,
                     before |-> conversation_history, ok |-> TRUE,
                     prev |-> NoPrev, from_disk |-> FALSE]
    /\ UNCHANGED <<question, full_response, n_lines, turn_no, hist_before, webFrame,
                   system_prompt, history_is_list, max_history,
                   conversation_start_time, clock, disk, saved, mem_phase>>

\* gradio_handlers.py toggle_streaming
WebToggleStreaming ==
    /\ app = "web"
    /\ pc = "prompt"
    /\ use_streaming' = ~use_streaming
    /\ UNCHANGED <<app, speak_while_streaming, is_processing, pc, stream_open, question,
                   full_response, text_buffer, n_lines, turn_no, turn_live, turn_muted,
                   turn_first_id, turn_blocking_calls, turn_outcome, hist_before,
                   ttsVars, memVars>>

\* SollamaApp.__init__ / SollamaGradioInterface.__init__, before any turn
AppInit(which) ==
    /\ app = which
    /\ use_streaming = TRUE
    /\ speak_while_streaming = TRUE
    /\ is_processing = FALSE
    /\ pc = "prompt"
    /\ stream_open = FALSE
    /\ question = <<>>
    /\ full_response = <<>>
    /\ text_buffer = <<>>
    /\ n_lines = 0
    /\ turn_no = 0
    /\ turn_live = FALSE
    /\ turn_muted = FALSE
    /\ turn_first_id = 1
    /\ turn_blocking_calls = 0
    /\ turn_outcome = "none"
    /\ hist_before = <<>>

\* Concurrent chat requests of the web interface: each request runs
\* chat_stream (gradio_handlers.py:75-123) in a thread of its own.
VARIABLES
    req_pc,     \* per request: "new" | "passed" | "try" | "stream" | "add" | "finally" | "done"
    req_msg,    \* per request: its message
    req_end     \* per request: "none" | "ignored" | "busy" | "ok" | "failed"

reqVars == <<req_pc, req_msg, req_end>>

Requests == 1..MaxRequests

\* the messages of the requests: a question, or nothing but whitespace
Messages == {<<"q">>, <<" ">>}

ReqIdle ==
    /\ req_pc = [r \in Requests |-> "new"]
    /\ req_msg = [r \in Requests |-> <<>>]
    /\ req_end = [r \in Requests |-> "none"]

\* what a chat request leaves alone
memRest == <<system_prompt, history_is_list, max_history, conversation_start_time, clock,
             disk, saved, mem_phase, n_calls, last_call>>

appRest == <<app, use_streaming, speak_while_streaming, pc, stream_open, question,
             full_response, text_buffer, n_lines, turn_no, turn_live, turn_muted,
             turn_first_id, turn_blocking_calls, turn_outcome, hist_before>>

\* gradio_handlers.py:77-83: the empty-message test and the read of is_processing
ReqCheck(r, m) ==
    /\ req_pc[r] = "new"
    /\ req_msg' = [req_msg EXCEPT ![r] = m]
    /\ IF IsBlank(m)
       THEN /\ req_pc' = [req_pc EXCEPT ![r] = "done"]
            /\ req_end' = [req_end EXCEPT ![r] = "ignored"]
       ELSE IF is_processing
       THEN /\ req_pc' = [req_pc EXCEPT ![r] = "done"]
            /\ req_end' = [req_end EXCEPT ![r] = "busy"]
       ELSE /\ req_pc' = [req_pc EXCEPT ![r] = "passed"]
            /\ UNCHANGED req_end
    /\ UNCHANGED <<is_processing, conversation_history>>

\* gradio_handlers.py:85: the flag is set
ReqSet(r) ==
    /\ req_pc[r] = "passed"
    /\ is_processing' = TRUE
    /\ req_pc' = [req_pc EXCEPT ![r] = "try"]
    /\ UNCHANGED <<req_msg, req_end, conversation_history>>

\* gradio_handlers.py:88-93: the context is read
ReqContext(r) ==
    /\ req_pc[r] = "try"
    /\ req_pc' = [req_pc EXCEPT ![r] = "stream"]
    /\ UNCHANGED <<req_msg, req_end, is_processing, conversation_history>>

\* gradio_handlers.py:95-101, 114-120: the stream is consumed to its end, or
\* it raises (or the client abandons the generator) and the handler goes
\* to its finally clause
ReqGenerate(r, ok) ==
    /\ req_pc[r] = "stream"
    /\ req_pc' = [req_pc EXCEPT ![r] = IF ok THEN "add" ELSE "finally"]
    /\ req_end' = [req_end EXCEPT ![r] = IF ok THEN "ok" ELSE "failed"]
    /\ UNCHANGED <<req_msg, is_processing, conversation_history>>

\* gradio_handlers.py:103-112: add_exchange, then the last yield
ReqAdd(r) ==
    /\ req_pc[r] = "add"
    /\ conversation_history' =
           AddExchange(conversation_history, max_history, req_msg[r], <<"r">>)
    /\ req_pc' = [req_pc EXCEPT ![r] = "finally"]
    /\ UNCHANGED <<req_msg, req_end, is_processing>>

\* gradio_handlers.py:122-123: finally
ReqFinally(r) ==
    /\ req_pc[r] = "finally"
    /\ is_processing' = FALSE
    /\ req_pc' = [req_pc EXCEPT ![r] = "done"]
    /\ UNCHANGED <<req_msg, req_end, conversation_history>>

(***************************************************************************)
(* Specifications.                                                         *)
(***************************************************************************)
\* callers of the pure functions
auxVars == <<exVars, ctxVars, setVars, putVars, thrVars, logVars, reqVars>>

vars == <<memVars, genVars, auxVars, ttsVars, appVars>>

\* a program that has been constructed and runs no turn
Idle == GenIdle /\ ExIdle /\ CtxIdle /\ SetIdle /\ PutIdle /\ ThrIdle /\ LogInit(FALSE) /\ ReqIdle /\ TtsInit(TRUE, DEFAULT_VOLUME) /\ AppInit("console")

\* the logs add_exchange is applied to in SpecAddAny: zero to two pairs
InitialLogs ==
    LET pairs == { <<UserMsg(u), AssistantMsg(a)>> : u \in UserTexts, a \in {<<"r">>} }
    IN  {<<>>} \cup pairs \cup { x \o y : x \in pairs, y \in pairs }

\* a memory constructed with max_history = m, empty
InitAdd ==
    /\ MemoryInit!1 /\ MemoryInit!2 /\ MemoryInit!3
    /\ max_history \in AddHistoryChoices
    /\ conversation_start_time = 0 /\ clock = 0 /\ disk = MissingFile /\ saved = NoPrev
    /\ mem_phase = "running" /\ n_calls = 0 /\ last_call = NoCall
    /\ Idle

\* a memory constructed with max_history = m, holding any pair-aligned log
InitAddAny ==
    /\ system_prompt = DEFAULT_SYSTEM_PROMPT
    /\ conversation_history \in InitialLogs
    /\ history_is_list = TRUE
    /\ max_history \in AddHistoryChoices
    /\ conversation_start_time = 0 /\ clock = 0 /\ disk = MissingFile /\ saved = NoPrev
    /\ mem_phase = "running" /\ n_calls = 0 /\ last_call = NoCall
    /\ Idle

NextAdd ==
    /\ n_calls < MaxAddCalls
    /\ \E u \in UserTexts, a \in AssistantTexts : add_exchange(u, a)
    /\ UNCHANGED <<genVars, auxVars, ttsVars, appVars>>

\* sequences of add_exchange calls on a memory that starts empty
SpecAdd == InitAdd /\ [][NextAdd]_vars

\* add_exchange applied to every pair-aligned log
SpecAddAny == InitAddAny /\ [][NextAdd]_vars

InitMemory == MemoryInit /\ Idle

NextMemory ==
    \/ /\ \E m \in MaxHistoryChoices \cup {DEFAULT_MAX_MEMORY} : ConfigureMaxMemory(m)
       /\ UNCHANGED <<genVars, auxVars, ttsVars, appVars>>
    \/ /\ n_calls < MaxCalls
       /\ \E u \in UserTexts, a \in {<<"r">>} : add_exchange(u, a)
       /\ UNCHANGED <<genVars, auxVars, ttsVars, appVars>>
    \/ clear_history /\ UNCHANGED <<genVars, auxVars, ttsVars, appVars>>
    \/ /\ \E p \in PromptTexts : set_system_prompt(p)
       /\ UNCHANGED <<genVars, auxVars, ttsVars, appVars>>
    \/ /\ \E ok \in BOOLEAN : save_memory(ok)
       /\ UNCHANGED <<genVars, auxVars, ttsVars, appVars>>
    \/ /\ \E f \in ExternalFiles \cup {disk} : load_memory(f)
       /\ UNCHANGED <<genVars, auxVars, ttsVars, appVars>>

\* a session of memory operations after start-up
SpecMemory == InitMemory /\ [][NextMemory]_vars

\* a client about to call generate_response
InitGen == MemoryInit /\ Idle

NextGen ==
    \/ /\ \E streaming \in BOOLEAN : GenStart(streaming)
       /\ UNCHANGED <<memVars, auxVars, ttsVars, appVars>>
    \/ /\ Len(gen_seen) < MaxLines
       /\ \E line \in Lines : GenLine(line)
       /\ UNCHANGED <<memVars, auxVars, ttsVars, appVars>>
    \/ GenExhausted /\ UNCHANGED <<memVars, auxVars, ttsVars, appVars>>
    \/ /\ \E line \in {ConnectionFailure, BadJsonLine} \cup ObjectLines : GenWhole(line)
       /\ UNCHANGED <<memVars, auxVars, ttsVars, appVars>>

\* one call of generate_response on any body
SpecGen == InitGen /\ [][NextGen]_vars

\* a caller holding any buffer
InitExtract ==
    /\ MemoryInit
    /\ GenIdle
    /\ TtsInit(TRUE, DEFAULT_VOLUME)
    /\ AppInit("console")
    /\ CtxIdle /\ SetIdle /\ PutIdle /\ ThrIdle /\ LogInit(FALSE) /\ ReqIdle
    /\ ex_buffer \in Buffers
    /\ ex_calls = 0
    /\ ex_first = NoSplit
    /\ ex_second = NoSplit

NextExtract ==
    extract_sentences /\ UNCHANGED <<memVars, genVars, ctxVars, setVars, putVars, thrVars, logVars, reqVars, ttsVars, appVars>>

\* extract_sentences called twice on every buffer
SpecExtract == InitExtract /\ [][NextExtract]_vars

\* a memory in use, with the default maximum
InitPersist ==
    /\ MemoryInit!1 /\ MemoryInit!2 /\ MemoryInit!3 /\ MemoryInit!4
    /\ conversation_start_time = 0 /\ clock = 0 /\ disk = MissingFile /\ saved = NoPrev
    /\ mem_phase = "running" /\ n_calls = 0 /\ last_call = NoCall
    /\ Idle

NextPersist ==
    \/ /\ n_calls < MaxCalls
       /\ \E u \in UserTexts, a \in {<<"r">>} : add_exchange(u, a)
       /\ UNCHANGED <<genVars, auxVars, ttsVars, appVars>>
    \/ clear_history /\ UNCHANGED <<genVars, auxVars, ttsVars, appVars>>
    \/ /\ \E p \in PromptTexts : set_system_prompt(p)
       /\ UNCHANGED <<genVars, auxVars, ttsVars, appVars>>
    \/ /\ \E ok \in BOOLEAN : save_memory(ok)
       /\ UNCHANGED <<genVars, auxVars, ttsVars, appVars>>
    \/ /\ \E f \in ExternalFiles \cup {disk} : load_memory(f)
       /\ UNCHANGED <<genVars, auxVars, ttsVars, appVars>>

\* a session that saves and loads its memory
SpecPersist == InitPersist /\ [][NextPersist]_vars

\* a memory holding any pair-aligned log or a value that is no list
InitContext ==
    /\ system_prompt \in PromptTexts
    /\ conversation_history \in InitialLogs
    /\ history_is_list \in BOOLEAN
    /\ ~history_is_list => conversation_history = <<>>
    /\ max_history = DEFAULT_MAX_MEMORY
    /\ conversation_start_time = 0 /\ clock = 0 /\ disk = MissingFile /\ saved = NoPrev
    /\ mem_phase = "running" /\ n_calls = 0 /\ last_call = NoCall
    /\ Idle

NextContext ==
    \/ get_full_context /\ UNCHANGED <<genVars, exVars, setVars, putVars, thrVars, logVars, reqVars, ttsVars, appVars>>
    \/ /\ \E q \in UserTexts : AppendUserMessage(q)
       /\ UNCHANGED <<genVars, exVars, setVars, putVars, thrVars, logVars, reqVars, ttsVars, appVars>>
    \/ DropContext /\ UNCHANGED <<genVars, exVars, setVars, putVars, thrVars, logVars, reqVars, ttsVars, appVars>>
    \/ /\ ctx_pc = "idle"
       /\ n_calls < MaxCalls
       /\ \E u \in UserTexts, a \in {<<"r">>} : add_exchange(u, a)
       /\ UNCHANGED <<genVars, auxVars, ttsVars, appVars>>
    \/ /\ ctx_pc = "idle"
       /\ \E p \in PromptTexts : set_system_prompt(p)
       /\ UNCHANGED <<genVars, auxVars, ttsVars, appVars>>

\* turns that build their context from the memory
SpecContext == InitContext /\ [][NextContext]_vars

\* A console session at the prompt: the settings commands in any order,
\* from any launch volume, with or without --mute.
InitSettings ==
    /\ MemoryInit
    /\ GenIdle /\ ExIdle /\ CtxIdle /\ PutIdle /\ ThrIdle /\ LogInit(FALSE) /\ ReqIdle
    /\ AppInit("console")
    /\ \E v \in LaunchVolumes, mute_on_start \in BOOLEAN :
          /\ TtsStart(TRUE, v, mute_on_start)
          /\ volume_at_mute = v
          /\ only_adjusted = mute_on_start
    /\ last_setting = NoSetting
    /\ prev_setting = NoPrevSetting

NextSettings ==
    \/ /\ \E increase \in BOOLEAN : CmdAdjustSpeechRate(increase)
       /\ UNCHANGED <<memVars, genVars, exVars, ctxVars, putVars, thrVars, logVars, reqVars, appVars>>
    \/ /\ \E increase \in BOOLEAN : CmdAdjustVolume(increase)
       /\ UNCHANGED <<memVars, genVars, exVars, ctxVars, putVars, thrVars, logVars, reqVars, appVars>>
    \/ /\ CmdToggleMute
       /\ UNCHANGED <<memVars, genVars, exVars, ctxVars, putVars, thrVars, logVars, reqVars, appVars>>
    \/ /\ \E x \in VolumeArgs : CmdSetVolume(x)
       /\ UNCHANGED <<memVars, genVars, exVars, ctxVars, putVars, thrVars, logVars, reqVars, appVars>>

SpecSettings == InitSettings /\ [][NextSettings]_vars

\* A speech session: a caller enqueues texts and issues settings commands
\* while the worker thread takes and synthesizes the units.
InitSpeech ==
    /\ MemoryInit
    /\ GenIdle /\ ExIdle /\ CtxIdle /\ SetIdle /\ PutIdle /\ ThrIdle /\ LogInit(FALSE) /\ ReqIdle
    /\ AppInit("console")
    /\ \E available \in BOOLEAN, v \in LaunchVolumes, mute_on_start \in BOOLEAN :
          TtsStart(available, v, mute_on_start)

speechSetting ==
    /\ n_settings < MaxSettingCalls
    /\ n_settings' = n_settings + 1
    /\ UNCHANGED <<last_put, n_puts, settingsFrame, memVars, genVars, exVars, ctxVars,
                   setVars, thrVars, logVars, reqVars, appVars>>

NextSpeech ==
    \/ /\ n_puts < MaxSpeakCalls
       /\ \E text \in SpeechTexts : speak_text_immediate(text)
       /\ UNCHANGED <<memVars, genVars, exVars, ctxVars, setVars, thrVars, logVars, reqVars, appVars>>
    \/ start_tts_thread /\ UNCHANGED <<memVars, genVars, exVars, ctxVars, setVars, thrVars, logVars, reqVars, appVars>>
    \/ WorkerCheck /\ UNCHANGED <<memVars, genVars, auxVars, appVars>>
    \/ WorkerGet /\ UNCHANGED <<memVars, genVars, auxVars, appVars>>
    \/ WorkerGetTimeout /\ UNCHANGED <<memVars, genVars, auxVars, appVars>>
    \/ WorkerSpeakBegin /\ UNCHANGED <<memVars, genVars, auxVars, appVars>>
    \/ WorkerSpeakEnd /\ UNCHANGED <<memVars, genVars, auxVars, appVars>>
    \/ toggle_mute /\ speechSetting
    \/ (\E increase \in BOOLEAN : adjust_volume(increase)) /\ speechSetting
    \/ (\E increase \in BOOLEAN : adjust_rate(increase)) /\ speechSetting
    \/ (\E x \in VolumeArgs : set_volume(x)) /\ speechSetting

SpecSpeech == InitSpeech /\ [][NextSpeech]_vars

\* The web interface's settings: constructed with a launch volume and
\* muted or not (gradio_app.py:26-33), then its handlers in any order.
InitWebSettings ==
    /\ MemoryInit
    /\ GenIdle /\ ExIdle /\ CtxIdle /\ SetIdle /\ PutIdle /\ ThrIdle /\ LogInit(FALSE) /\ ReqIdle
    /\ AppInit("web")
    /\ \E v \in LaunchVolumes, m \in BOOLEAN :
          /\ tts_available = TRUE
          /\ muted = m
          /\ volume = v
          /\ volume_before_mute = v
          /\ speech_rate = DEFAULT_SPEECH_RATE
          /\ engine = NoEngine
          /\ tts_queue = <<>>
          /\ unfinished_tasks = 0
          /\ tts_thread = "none"
          /\ tts_stop_event = FALSE
          /\ worker_pc = "off"
          /\ worker_unit = NoUnit
          /\ next_id = 1
          /\ spoken = <<>>
          /\ discarded = {}

NextWebSettings ==
    \/ /\ \E rate \in RateSlider : update_speech_rate(rate)
       /\ UNCHANGED <<settingsFrame, memVars, genVars, auxVars, appVars>>
    \/ /\ \E x \in VolumeSlider : update_volume(x)
       /\ UNCHANGED <<settingsFrame, memVars, genVars, auxVars, appVars>>
    \/ /\ \E m \in BOOLEAN : update_mute(m)
       /\ UNCHANGED <<settingsFrame, memVars, genVars, auxVars, appVars>>

SpecWebSettings == InitWebSettings /\ [][NextWebSettings]_vars

\* A console session seen from its transcript: turns that succeed, come
\* back empty or fail, with or without --save.
InitLog ==
    /\ MemoryInit
    /\ GenIdle /\ ExIdle /\ CtxIdle /\ SetIdle /\ PutIdle /\ ThrIdle /\ ReqIdle
    /\ TtsInit(TRUE, DEFAULT_VOLUME)
    /\ AppInit("console")
    /\ \E save \in BOOLEAN : LogInit(save)

NextLog ==
    /\ log_turns < MaxLogTurns
    /\ \E outcome \in {"ok", "empty", "failed"}, written \in BOOLEAN :
          ProcessQuestion(outcome, written)
    /\ UNCHANGED <<memVars, genVars, exVars, ctxVars, setVars, putVars, thrVars, reqVars,
                   ttsVars, appVars>>

SpecLog == InitLog /\ [][NextLog]_vars

\* The web interface with chat requests that may arrive together.
InitWeb ==
    /\ MemoryInit
    /\ GenIdle /\ ExIdle /\ CtxIdle /\ SetIdle /\ PutIdle /\ ThrIdle /\ LogInit(FALSE)
    /\ ReqIdle
    /\ TtsInit(TRUE, DEFAULT_VOLUME)
    /\ AppInit("web")

webReqFrame == <<memRest, appRest, genVars, exVars, ctxVars, setVars, putVars, thrVars,
                 logVars, ttsVars>>

NextWeb ==
    \/ (\E r \in Requests, m \in Messages : ReqCheck(r, m)) /\ UNCHANGED webReqFrame
    \/ (\E r \in Requests : ReqSet(r)) /\ UNCHANGED webReqFrame
    \/ (\E r \in Requests : ReqContext(r)) /\ UNCHANGED webReqFrame
    \/ (\E r \in Requests, ok \in BOOLEAN : ReqGenerate(r, ok)) /\ UNCHANGED webReqFrame
    \/ (\E r \in Requests : ReqAdd(r)) /\ UNCHANGED webReqFrame
    \/ (\E r \in Requests : ReqFinally(r)) /\ UNCHANGED webReqFrame

SpecWeb == InitWeb /\ [][NextWeb]_vars

\* The worker thread under its callers: live turns that start the worker,
\* enqueue, fail or wait and stop, and stop_tts_thread outside a turn.
InitThread ==
    /\ MemoryInit
    /\ GenIdle /\ ExIdle /\ CtxIdle /\ SetIdle /\ PutIdle /\ ThrIdle /\ LogInit(FALSE) /\ ReqIdle
    /\ AppInit("console")
    /\ TtsInit(TRUE, DEFAULT_VOLUME)

threadFrame == <<memVars, genVars, exVars, ctxVars, setVars, logVars, reqVars, appVars>>

\* the steps of the worker thread
ThreadWorker ==
    \/ WorkerCheck /\ UNCHANGED <<threadFrame, putVars, thrVars>>
    \/ WorkerGet /\ UNCHANGED <<threadFrame, putVars, thrVars>>
    \/ WorkerGetTimeout /\ UNCHANGED <<threadFrame, putVars, thrVars>>
    \/ WorkerSpeakBegin /\ UNCHANGED <<threadFrame, putVars, thrVars>>
    \/ WorkerSpeakEnd /\ UNCHANGED <<threadFrame, putVars, thrVars>>
    \/ /\ WorkerSpeakFails
       /\ synth_failed' = synth_failed \cup {worker_unit.id}
       /\ UNCHANGED <<threadFrame, putVars, caller_pc, started, stop_returned, queued_at_stop>>

NextThread ==
    \/ TurnStart /\ UNCHANGED threadFrame
    \/ /\ n_puts < MaxSpeakCalls
       /\ TurnPut(<<"a">>)
       /\ UNCHANGED threadFrame
    \/ TurnFail /\ UNCHANGED threadFrame
    \/ TurnStreamEnd /\ UNCHANGED threadFrame
    \/ TurnQueueJoin /\ UNCHANGED threadFrame
    \/ StopCall /\ UNCHANGED threadFrame
    \/ StopDrainOne /\ UNCHANGED threadFrame
    \/ StopDrainDone /\ UNCHANGED threadFrame
    \/ StopJoin /\ UNCHANGED threadFrame
    \/ ThreadWorker

SpecThread == InitThread /\ [][NextThread]_vars

\* the same under a fair scheduler: the worker thread keeps running, and a
\* tts_queue.join() that can return does
SpecThreadFair ==
    /\ SpecThread
    /\ WF_vars(ThreadWorker)
    /\ WF_vars(TurnQueueJoin /\ UNCHANGED threadFrame)

\* the console program or the web program, constructed, with or without a
\* speech engine
InitApp ==
    /\ MemoryInit
    /\ GenIdle
    /\ ExIdle /\ CtxIdle /\ SetIdle /\ PutIdle /\ ThrIdle /\ LogInit(FALSE) /\ ReqIdle
    /\ \E available \in BOOLEAN : TtsInit(available, DEFAULT_VOLUME)
    /\ \E which \in {"console", "web"} : AppInit(which)

NextApp ==
    \/ /\ turn_no < MaxTurns
       /\ \E q \in Questions : ConsoleAsk(q)
       /\ UNCHANGED <<genVars, auxVars>>
    \/ /\ n_lines < MaxSessionLines
       /\ \E line \in Lines : ConsoleLine(line)
       /\ UNCHANGED <<genVars, auxVars>>
    \/ /\ \E line \in {ConnectionFailure, BadJsonLine} \cup ObjectLines : ConsoleWhole(line)
       /\ UNCHANGED <<genVars, auxVars>>
    \/ ConsoleStreamEnd /\ UNCHANGED <<genVars, auxVars>>
    \/ ConsoleJoin /\ UNCHANGED <<genVars, auxVars>>
    \/ ConsoleThreadJoin /\ UNCHANGED <<genVars, auxVars>>
    \/ ConsoleFinish /\ UNCHANGED <<genVars, auxVars>>
    \/ turn_no < MaxTurns /\ ConsoleToggleStreaming /\ UNCHANGED <<genVars, auxVars>>
    \/ turn_no < MaxTurns /\ ConsoleToggleMute /\ UNCHANGED <<genVars, auxVars>>
    \/ ConsoleExit /\ UNCHANGED <<genVars, auxVars>>
    \/ ConsoleExitJoin /\ UNCHANGED <<genVars, auxVars>>
    \/ /\ turn_no < MaxTurns
       /\ \E m \in Questions : WebAsk(m)
       /\ UNCHANGED <<genVars, auxVars>>
    \/ /\ n_lines < MaxSessionLines
       /\ \E line \in Lines : WebLine(line)
       /\ UNCHANGED <<genVars, auxVars>>
    \/ /\ \E line \in {ConnectionFailure, BadJsonLine} \cup ObjectLines : WebWhole(line)
       /\ UNCHANGED <<genVars, auxVars>>
    \/ WebFinish /\ UNCHANGED <<genVars, auxVars>>
    \/ turn_no < MaxTurns /\ WebToggleStreaming /\ UNCHANGED <<genVars, auxVars>>
    \/ WorkerCheck /\ UNCHANGED <<memVars, genVars, auxVars, appVars>>
    \/ WorkerGet /\ UNCHANGED <<memVars, genVars, auxVars, appVars>>
    \/ WorkerGetTimeout /\ UNCHANGED <<memVars, genVars, auxVars, appVars>>
    \/ WorkerSpeakBegin /\ UNCHANGED <<memVars, genVars, auxVars, appVars>>
    \/ WorkerSpeakEnd /\ UNCHANGED <<memVars, genVars, auxVars, appVars>>

\* a session of the console program or of the web program
SpecApp == InitApp /\ [][NextApp]_vars

(***************************************************************************)
(* Claims.                                                                 *)
(***************************************************************************)
EvenLength(h) == Len(h) % 2 = 0

\* every even index (0-based) holds a user message, the next its response
PairAligned(h) ==
    /\ EvenLength(h)
    /\ \A i \in 1..Len(h) :
          h[i].role = IF i % 2 = 1 THEN "user" ELSE "assistant"

AfterAddExchange == last_call.op = "add_exchange" /\ last_call.ok

\* the bound was exceeded by the call that just returned
AddTrimmed == Len(last_call.before) + 2 > max_history

\* C1 as stated: for every configured maximum M and every sequence of
\* add_exchange calls on a memory that starts empty, the length of
\* conversation_history after each call is even and at most M.
C1_EvenAndBounded ==
    AfterAddExchange =>
        /\ EvenLength(conversation_history)
        /\ Len(conversation_history) <= max_history

\* C1 amended: the same for every configured maximum M >= 0 (no list has
\* a length at most a negative maximum, and --max-memory accepts one).
C1_EvenAndBoundedNonNegative ==
    (AfterAddExchange /\ max_history >= 0) =>
        /\ EvenLength(conversation_history)
        /\ Len(conversation_history) <= max_history

\* C1 witness: a call that exceeded a positive bound and evicted a pair,
\* leaving the log full
C1_Witness ==
    /\ AfterAddExchange
    /\ max_history >= 2
    /\ AddTrimmed
    /\ Len(conversation_history) = max_history

\* C2: in every reachable state of a ConversationMemory, after any
\* interleaving of add_exchange, clear_history, set_system_prompt,
\* save_memory, load_memory (of any file) and the start-up change of
\* max_history, conversation_history is a list of even length, at most
\* max_history.  (Stated for a maximum >= 0: see C1.)
C2_HistoryInvariant ==
    max_history >= 0 =>
        /\ history_is_list
        /\ EvenLength(conversation_history)
        /\ Len(conversation_history) <= max_history

\* what C3 says of the call add_exchange(u, a) that just returned
AddExchangePostcondition ==
    LET h == conversation_history
        before == last_call.before
        pair == <<UserMsg(last_call.user), AssistantMsg(last_call.assistant)>>
    IN  /\ Len(h) >= 2
        /\ SubSeq(h, Len(h) - 1, Len(h)) = pair
        /\ h = (IF AddTrimmed THEN SubSeq(before, 3, Len(before)) ELSE before) \o pair
        /\ PairAligned(h)

\* C3 as stated: for every log and every maximum M, add_exchange(u, a)
\* leaves a log that ends with (user u, assistant a); when the bound was
\* exceeded it is the previous log minus its two oldest messages followed
\* by the new pair; every even index holds a user message and the next
\* index its response.
C3_AddsPairEvictsOldest == AfterAddExchange => AddExchangePostcondition

\* C3 amended: the same for every pair-aligned log and every maximum
\* M >= 2 (with M < 2 the bound is exceeded by the pair itself, and the
\* two messages dropped are the new pair).
C3_AddsPairEvictsOldestFromTwo ==
    (AfterAddExchange /\ max_history >= 2) => AddExchangePostcondition

\* C3 witness: a call on a log of two pairs that exceeded the bound: the
\* oldest pair is gone, the second pair is now first
C3_Witness ==
    /\ AfterAddExchange
    /\ max_history >= 2
    /\ AddTrimmed
    /\ Len(last_call.before) = 4
    /\ conversation_history[1] = last_call.before[3]
    /\ last_call.before[1] # last_call.before[3]

\* C4: a turn whose generation fails, before the first chunk or in the
\* middle of the stream, leaves conversation_history exactly as it was
\* before the turn, in the console turn and in the web turn.
C4_FailedTurnLeavesLog ==
    turn_outcome = "failed" => conversation_history = hist_before

\* C4 witness: a console turn that failed in the middle of the stream,
\* after text had been accumulated, on a log that held an exchange
C4_Witness ==
    /\ app = "console"
    /\ turn_outcome = "failed"
    /\ ~IsBlank(full_response)
    /\ hist_before # <<>>

\* C5: every assistant message stored in conversation_history has
\* non-empty content: no turn, in the console or in the web program,
\* appends a pair whose response is empty or whitespace-only.
C5_NoBlankAssistantMessage ==
    \A i \in 1..Len(conversation_history) :
        conversation_history[i].role = "assistant"
            => ~IsBlank(conversation_history[i].content)

\* the ids of a sequence of units
Ids(units) == [i \in 1..Len(units) |-> units[i].id]

StrictlyIncreasing(ids) ==
    \A i, j \in 1..Len(ids) : i < j => ids[i] < ids[j]

\* the units in the order the worker has taken and will take them: those
\* it has begun to synthesize, the one it holds, those still queued
ServiceOrder ==
    Ids(spoken)
        \o (IF worker_pc = "dequeued" THEN <<worker_unit.id>> ELSE <<>>)
        \o Ids(tts_queue)

\* C6: the units enqueued with speak_text_immediate are synthesized in
\* the order they were enqueued, each once: the worker's order of service
\* is the order of enqueuing, and it holds every unit enqueued except
\* those a stop has drained.
C6_SynthesizedInEnqueueOrder ==
    /\ StrictlyIncreasing(ServiceOrder)
    /\ { ServiceOrder[i] : i \in 1..Len(ServiceOrder) } = (1..(next_id - 1)) \ discarded

\* C6 witness: two units have been synthesized while the producer has
\* enqueued more, with no stop issued
C6_Witness ==
    /\ Len(spoken) >= 2
    /\ tts_queue # <<>>
    /\ ~tts_stop_event
    /\ discarded = {}

\* the units enqueued by the current turn
TurnUnits == turn_first_id..(next_id - 1)

\* C7: when a live-narrated streaming turn returns its response, every
\* unit enqueued during the turn has finished being synthesized: none is
\* queued, in flight, or discarded by stop_tts_thread.
C7_TurnUnitsFinished ==
    (app = "console" /\ pc = "returned" /\ turn_live) =>
        \A id \in TurnUnits :
            /\ id \in { spoken[i].id : i \in 1..Len(spoken) }
            /\ worker_unit.id # id
            /\ id \notin { tts_queue[i].id : i \in 1..Len(tts_queue) }
            /\ id \notin discarded

\* C7 witness: a live turn that enqueued two units has returned
C7_Witness ==
    /\ app = "console"
    /\ pc = "returned"
    /\ turn_live
    /\ Cardinality(TurnUnits) >= 2

UsedQueue == Cardinality(TurnUnits) > 0

UsedBlockingSpeak == turn_blocking_calls > 0

\* C8 as stated: in no turn is the response narrated through both paths,
\* and a successful turn with a non-empty response uses exactly one.
C8_ExactlyOnePath ==
    app = "console" =>
        /\ ~(UsedQueue /\ UsedBlockingSpeak)
        /\ turn_outcome = "ok" => (UsedQueue # UsedBlockingSpeak)

\* C8 amended: never both, and exactly one in a successful turn with a
\* non-empty response when the engine is available and audio is not muted
\* (without an engine, and in a live turn while muted, neither is used).
C8_ExactlyOnePathWhenAudible ==
    app = "console" =>
        /\ ~(UsedQueue /\ UsedBlockingSpeak)
        /\ turn_blocking_calls <= 1
        /\ (turn_outcome = "ok" /\ tts_available /\ ~turn_muted)
               => (UsedQueue # UsedBlockingSpeak)

\* C8 witness: one session has had a successful turn narrated live and
\* then a successful turn spoken by the blocking call
C8_Witness ==
    /\ app = "console"
    /\ turn_outcome = "ok"
    /\ turn_no = 2
    /\ UsedBlockingSpeak
    /\ ~turn_muted
    /\ spoken # <<>>

\* C9: whenever a turn has ended, by success or by a generation failure,
\* no worker thread is left running and no unit remains queued: between
\* turns the worker is stopped and the queue is empty.
C9_WorkerStoppedBetweenTurns ==
    (app = "console" /\ pc = "prompt") =>
        /\ tts_thread # "alive"
        /\ tts_queue = <<>>

\* the chunks C10 says a streamed body yields
RECURSIVE ExpectedChunks(_)
ExpectedChunks(lines) ==
    IF lines = <<>> THEN <<>>
    ELSE LET line == Head(lines)
         IN  IF line.kind = "object"
             THEN (IF line.has_response THEN <<line.response>> ELSE <<>>)
                  \o (IF line.done THEN <<>> ELSE ExpectedChunks(Tail(lines)))
             ELSE ExpectedChunks(Tail(lines))

\* C10: in streaming mode generate_response yields, in order, exactly the
\* `response` values of the well-formed records up to and including the
\* first record whose `done` flag is true, and a malformed record is
\* skipped without ending the sequence.
C10_YieldsResponsesUpToDone ==
    (gen_pc # "idle" /\ gen_streaming) =>
        /\ gen_yielded = ExpectedChunks(gen_seen)
        /\ (gen_seen # <<>> /\ Malformed(gen_seen[Len(gen_seen)]))
               => gen_pc = "running"

\* ["Hello world."], "How are"
HelloSplit ==
    [sentences |-> << <<"H", "e", "l", "l", "o", " ", "w", "o", "r", "l", "d", ".">> >>,
     remaining |-> <<"H", "o", "w", " ", "a", "r", "e">>]

NonWhitespace(text) == SelectSeq(text, LAMBDA c : c \notin Whitespace)

RECURSIVE Concat(_)
Concat(texts) == IF texts = <<>> THEN <<>> ELSE Head(texts) \o Concat(Tail(texts))

\* the index of the last terminator of the buffer, 0 when it has none
LastTerminator(buffer) ==
    LET at == { i \in 1..Len(buffer) : buffer[i] \in Terminators }
    IN  IF at = {} THEN 0 ELSE CHOOSE i \in at : \A j \in at : j <= i

\* where the last sentence boundary ends: the last terminator and the
\* whitespace that follows it
LastBoundaryEnd(buffer) ==
    LET t == LastTerminator(buffer)
    IN  IF t = 0 THEN 0
        ELSE CHOOSE e \in t..Len(buffer) :
                 /\ \A k \in (t + 1)..e : buffer[k] \in Whitespace
                 /\ e < Len(buffer) => buffer[e + 1] \notin Whitespace

\* C12: extract_sentences never discards text: the sentences followed by
\* the remainder hold every non-whitespace character of the buffer once
\* and in order, each sentence ends with '.', '!' or '?', and the remainder
\* is the whole text after the last sentence boundary.
C12_NoTextDiscarded ==
    ex_calls >= 1 =>
        /\ NonWhitespace(Concat(ex_first.sentences) \o ex_first.remaining)
               = NonWhitespace(ex_buffer)
        /\ \A i \in 1..Len(ex_first.sentences) :
               LET sentence == ex_first.sentences[i]
               IN  sentence # <<>> /\ sentence[Len(sentence)] \in Terminators
        /\ ex_first.remaining
               = SubSeq(ex_buffer, LastBoundaryEnd(ex_buffer) + 1, Len(ex_buffer))

AfterFailedLoad == last_call.op = "load_memory" /\ ~last_call.ok

\* C13: when load_memory fails (returns False) for any reason, file not
\* found, unparsable document, or a document whose fields have the wrong
\* shape, system_prompt, conversation_history and conversation_start_time
\* are what they were before the call.
C13_FailedLoadLeavesState == AfterFailedLoad => Snapshot = last_call.prev

AfterRoundTrip ==
    /\ last_call.op = "load_memory"
    /\ last_call.from_disk
    /\ disk.kind = "doc"

\* C14: save_memory to a file followed by load_memory of that file into
\* any ConversationMemory yields the saved system_prompt, the saved
\* conversation_history and the saved conversation_start_time.
C14_SaveLoadRoundTrip ==
    AfterRoundTrip =>
        /\ system_prompt = saved.prompt
        /\ conversation_history = saved.history
        /\ history_is_list = saved.is_list
        /\ conversation_start_time = saved.start_time

\* C14 witness: a memory saved with two exchanges and a start time that
\* has a fraction of a second was loaded back
C14_Witness ==
    /\ AfterRoundTrip
    /\ Len(saved.history) = 4
    /\ saved.start_time % 2 = 1

\* C15: get_full_context returns the system message built from the
\* current system_prompt followed by the log messages in order, and is
\* pure: neither the call nor the caller appending the new user message to
\* the returned list changes conversation_history or system_prompt, and
\* the system message is never stored in conversation_history.
C15_ContextPure ==
    ctx_pc \in {"got", "appended"} =>
        /\ SubSeq(messages, 1, Len(ctx_before.history) + 1)
               = <<SystemMsg(ctx_before.prompt)>> \o ctx_before.history
        /\ Len(messages) = Len(ctx_before.history) + (IF ctx_pc = "got" THEN 1 ELSE 2)
        /\ conversation_history = ctx_before.history
        /\ system_prompt = ctx_before.prompt
        /\ \A i \in 1..Len(conversation_history) :
               conversation_history[i].role # "system"

\* C15 witness: the caller has appended its user message to the context
\* of a log of two exchanges
C15_Witness ==
    /\ ctx_pc = "appended"
    /\ Len(ctx_before.history) = 4
    /\ messages[Len(messages)].role = "user"

\* the last settings call was the toggle_mute that switched the mute off
JustUnmuted == last_setting.op = "toggle_mute" /\ last_setting.before.muted

\* C16: when toggle_mute switches the mute off, and only adjust_volume and
\* adjust_rate were called since the mute was switched on (by toggle_mute at
\* volume v, or by mute_on_start with launch volume v), the session is
\* unmuted and the volume is v again.
C16_UnmuteRestoresVolume ==
    (JustUnmuted /\ only_adjusted) => (~muted /\ volume = volume_at_mute)

\* a mute at volume 3, a volume adjustment while muted, then the unmute
C16_Witness ==
    /\ JustUnmuted
    /\ only_adjusted
    /\ prev_setting.op = "adjust_volume"
    /\ last_setting.before.volume = 1
    /\ volume_at_mute = 3
    /\ volume = 3

\* the last settings call was set_volume(x) with x in [0.0, 1.0]
SetInRange(c) == c.op = "set_volume" /\ 0 <= c.arg /\ c.arg <= 10

\* C17: after set_volume(x) with x in range in a muted state, muted is false
\* and the volume is x; after a toggle_mute that directly follows it, the
\* session is muted, the volume is 0 and the remembered pre-mute volume is x.
C17_SetVolumeUnmutes ==
    /\ (SetInRange(last_setting) /\ last_setting.before.muted)
          => (~muted /\ volume = last_setting.arg /\ last_setting.result)
    /\ (last_setting.op = "toggle_mute" /\ SetInRange(prev_setting))
          => (muted /\ volume = 0 /\ volume_before_mute = prev_setting.arg)

\* set_volume(0.3) in a muted session, then toggle_mute
C17_Witness ==
    /\ last_setting.op = "toggle_mute"
    /\ SetInRange(prev_setting)
    /\ prev_setting.arg = 3
    /\ prev_setting.was_muted
    /\ volume_before_mute = 3

\* C18: set_volume(x) with x < 0.0 or x > 1.0 returns False and leaves
\* volume, muted and volume_before_mute as they were, and the volume is
\* within [0.0, 1.0] after every sequence of settings commands.
C18_OutOfRangeRejected ==
    /\ (last_setting.op = "set_volume" /\ (last_setting.arg < 0 \/ last_setting.arg > 10))
          => /\ ~last_setting.result
             /\ volume = last_setting.before.volume
             /\ muted = last_setting.before.muted
             /\ volume_before_mute = last_setting.before.volume_before_mute
    /\ 0 <= volume /\ volume <= 10
    /\ 0 <= volume_before_mute /\ volume_before_mute <= 10

\* set_volume(1.1) in a muted session
C18_Witness ==
    /\ last_setting.op = "set_volume"
    /\ last_setting.arg = 11
    /\ ~last_setting.result
    /\ muted
    /\ volume_before_mute = 7

\* C19: speak_text_immediate leaves the queue one unit longer, the unit put
\* last, when the text is non-empty after trimming, audio is not muted and
\* the engine is available; otherwise it leaves the queue as it was; and its
\* put() does not block.
C19_EnqueuesExactlyWhenAudible ==
    last_put.called =>
        /\ IF Strip(last_put.text) # <<>> /\ ~last_put.muted /\ last_put.available
           THEN /\ Len(last_put.after) = Len(last_put.before) + 1
                /\ SubSeq(last_put.after, 1, Len(last_put.before)) = last_put.before
           ELSE last_put.after = last_put.before
        /\ ~last_put.blocked

\* a padded text put behind a unit that is still queued
C19_Witness ==
    /\ last_put.called
    /\ last_put.text = <<" ", "b", " ">>
    /\ Len(last_put.before) = 1
    /\ Len(last_put.after) = 2
    /\ last_put.after[2].text = <<"b">>

\* C20: a synthesis call that begins gives the engine the volume and rate
\* of that moment; if the mute is on at that moment the unit is not audible
\* (the engine's volume is 0); and no step taken while a unit is in flight
\* changes the engine that is speaking it.
C20_SettingsReadAtSynthesis ==
    [][ /\ (worker_pc = "dequeued" /\ worker_pc' = "speaking")
            => /\ engine' = [volume |-> volume, rate |-> speech_rate]
               /\ muted => engine'.volume = 0
        /\ (worker_pc = "speaking" /\ worker_pc' = "speaking")
            => engine' = engine ]_vars

\* the unit the worker has taken and not finished synthesizing
InFlight == IF worker_pc \in {"dequeued", "speaking"} THEN {worker_unit.id} ELSE {}

\* C21: once stop_tts_thread has returned, and until the next start or enqueue,
\* the stop signal is set, the queue is empty, and no unit that was queued
\* when stop_tts_thread was called is with the worker to be spoken.
C21_StopDiscardsQueued ==
    stop_returned =>
        /\ tts_stop_event
        /\ tts_queue = <<>>
        /\ queued_at_stop \cap InFlight = {}

SpokenIds == { spoken[i].id : i \in 1..Len(spoken) }

QueuedIds == { tts_queue[i].id : i \in 1..Len(tts_queue) }

\* C22: a synthesis call that fails leaves the worker alive at the top of
\* its loop with the unit marked done, and leaves the caller where it was;
\* the units not yet finished are exactly those queued or in flight; the
\* worker ends only when a stop was signalled; units are synthesized in
\* the order they were enqueued; and under fair scheduling a unit queued
\* behind a running worker is synthesized, unless a stop is signalled or
\* discards it.
C22_SynthesisFailureSwallowed ==
    /\ [](/\ unfinished_tasks = Len(tts_queue) + Cardinality(InFlight)
          /\ synth_failed \subseteq SpokenIds \ InFlight
          /\ (tts_thread = "dead" => tts_stop_event)
          /\ StrictlyIncreasing(Ids(spoken)))
    /\ [][synth_failed' # synth_failed =>
            /\ tts_thread' = "alive"
            /\ worker_pc' = "check"
            /\ unfinished_tasks' = unfinished_tasks - 1
            /\ caller_pc' = caller_pc]_vars
    /\ \A id \in 1..MaxSpeakCalls :
          (id \in QueuedIds /\ tts_thread = "alive" /\ ~tts_stop_event)
              ~> (id \in SpokenIds \/ id \in discarded \/ tts_stop_event)

\* the first unit failed, the second was synthesized after it, the turn
\* has passed tts_queue.join()
C22_Witness ==
    /\ synth_failed = {1}
    /\ Ids(spoken) = <<1, 2>>
    /\ worker_pc = "check"
    /\ unfinished_tasks = 0
    /\ caller_pc = "draining"

\* C27: from the return of start_tts_thread until stop_tts_thread is called
\* next, the worker thread is alive and its stop signal is cleared, so
\* that it consumes the units enqueued.
C27_StartLeavesRunningWorker ==
    started => (tts_thread = "alive" /\ ~tts_stop_event)

\* C26: under fair scheduling of the worker thread, a turn that waits at
\* tts_queue.join() gets past it.
C26_QueueJoinReturns ==
    (caller_pc = "queue_join") ~> (caller_pc # "queue_join")

\* the remainder of the turn's stream is the last unit enqueued and the
\* worker has synthesized it
RemainderSpokenLast ==
    /\ next_id > turn_first_id
    /\ Unit(next_id - 1, Strip(text_buffer)) \in { spoken[i] : i \in 1..Len(spoken) }
    /\ (next_id - 1) \notin InFlight \cup QueuedIds \cup discarded

\* C23 as stated: when a live-narrated turn returns with a non-empty
\* remainder in its pending buffer, the remainder was enqueued as the last
\* unit of the turn and has been spoken.
C23_RemainderSpoken ==
    (app = "console" /\ pc = "returned" /\ turn_live /\ text_buffer # <<>>)
        => RemainderSpokenLast

\* C23 amended: the same when audio was not muted during the turn.
C23_RemainderSpokenWhenAudible ==
    (app = "console" /\ pc = "returned" /\ turn_live /\ text_buffer # <<>> /\ ~turn_muted)
        => RemainderSpokenLast

\* a live turn returns after the sentence "a." and the fragment "b"
C23_Witness ==
    /\ app = "console"
    /\ pc = "returned"
    /\ turn_live
    /\ ~turn_muted
    /\ text_buffer = <<"b">>
    /\ Cardinality(TurnUnits) = 2
    /\ spoken[Len(spoken)] = Unit(next_id - 1, <<"b">>)

\* C24: with max_history = N >= 1, after any number of add_exchange calls on
\* a memory that started empty, the log holds the most recent exchanges up
\* to N of them: at least as many pairs as there were calls, or N.
C24_LimitCountsExchanges ==
    max_history >= 1 =>
        Len(conversation_history) >= 2 * Min(max_history, n_calls)

\* the words of a text: its maximal runs of characters that are not whitespace
RECURSIVE Words(_)
Words(text) ==
    LET t == LStrip(text)
        n == IF \E i \in 1..Len(t) : t[i] \in Whitespace
             THEN (CHOOSE i \in 1..Len(t) :
                      t[i] \in Whitespace /\ \A j \in 1..(i - 1) : t[j] \notin Whitespace) - 1
             ELSE Len(t)
    IN  IF t = <<>> THEN <<>>
        ELSE <<SubSeq(t, 1, n)>> \o Words(SubSeq(t, n + 1, Len(t)))

RECURSIVE WordsOfAll(_)
WordsOfAll(texts) ==
    IF texts = <<>> THEN <<>> ELSE Words(Head(texts)) \o WordsOfAll(Tail(texts))

\* no word of `parts` joins two words of `whole`: every word of `whole` is
\* one or more consecutive words of `parts`
RECURSIVE Refines(_, _)
Refines(parts, whole) ==
    IF whole = <<>> THEN parts = <<>>
    ELSE \E n \in 1..Len(parts) :
            /\ Concat(SubSeq(parts, 1, n)) = Head(whole)
            /\ Refines(SubSeq(parts, n + 1, Len(parts)), Tail(whole))

\* the units the worker has begun, holds or will take
KnownUnits ==
    { spoken[i] : i \in 1..Len(spoken) }
        \cup { tts_queue[i] : i \in 1..Len(tts_queue) }
        \cup (IF worker_pc = "dequeued" THEN {worker_unit} ELSE {})

\* the texts of the units the turn has enqueued, in order
TurnTexts ==
    [i \in 1..(next_id - turn_first_id) |->
        (CHOOSE u \in KnownUnits : u.id = turn_first_id + i - 1).text]

\* C25: while a live-narrated turn with audio on receives its stream, the
\* units enqueued so far followed by the pending buffer hold the characters
\* of the response received so far that are not whitespace, in order, and
\* none of their words joins two words of the response.
C25_NoTextLostAcrossChunks ==
    (app = "console" /\ pc = "stream" /\ turn_live /\ ~turn_muted) =>
        /\ NonWhitespace(Concat(TurnTexts) \o text_buffer) = NonWhitespace(full_response)
        /\ Refines(WordsOfAll(Append(TurnTexts, text_buffer)), Words(full_response))

\* C28: in every state of the TTS settings, muted implies that the volume
\* is 0.0.
C28_MutedImpliesSilent == muted => volume = 0

\* C29: the k-th exchange written to the transcript file is written as
\* Qk/Ak.
C29_TranscriptNumbersConsecutive ==
    \A k \in 1..Len(transcript) : transcript[k] = k

\* the requests between the read of the context and the end of add_exchange
InCriticalSection == { r \in Requests : req_pc[r] \in {"stream", "add"} }

\* C30: at most one request is between reading the context and calling
\* add_exchange; a step that rejects a request as busy changes neither the
\* memory nor the flag; and when every accepted request has ended, by
\* success or by failure, is_processing is false.
C30_GuardExcludesAndReleases ==
    /\ [](/\ Cardinality(InCriticalSection) <= 1
          /\ (\A r \in Requests : req_pc[r] \in {"new", "done"}) => ~is_processing)
    /\ [][(\E r \in Requests : req_end[r] # "busy" /\ req_end'[r] = "busy")
            => /\ is_processing' = is_processing
               /\ conversation_history' = conversation_history]_vars

=============================================================================
